---- MODULE Spec2Model ----
(***************************************************************************)
(* Model of the review server (server/server.js): the expiring object      *)
(* cache, the paginated listing helper, the byte-fetch routes behind the   *)
(* p-limit admission gate, the listing routes and the save-json upsert.    *)
(*                                                                         *)
(* A store call takes effect at the moment its answer reaches the handler; *)
(* the handler then runs on to its next await in the same step.  A request *)
(* that has answered leaves its slot and is kept in lres or sres.          *)
(*                                                                         *)
(* Specifications: SpecCache (the cache helpers and POST /cache/clear),    *)
(* SpecFetch (content and download routes), SpecList (the three listing    *)
(* routes over a paged store), SpecSave (promotes side by side) and        *)
(* SpecResults (a promote next to GET /result-files).                      *)
(***************************************************************************)
EXTENDS Integers, Sequences, FiniteSets, TLC

VARIABLES
    cache,      \* NodeCache data: key -> [v |-> value, t |-> expiry time]
    now,        \* Date.now(), in seconds
    ret,        \* the last cache helper call and what it returned (seq flips per call)
    lastSet,    \* history: key -> the last cacheSet of the key not invalidated since
    queue,      \* p-limit: the file ids of the calls waiting for a slot, oldest first
    activeCount,\* p-limit: the number of calls holding a slot
    fetching,   \* file id -> drive.files.get(alt=media) calls of fetchFileBytes in flight
    dlMeta,     \* file id -> download requests awaiting drive.files.get(fields=name)
    dlStream,   \* file id -> download requests whose media stream is in flight
    objects,    \* the remote store: its objects, in listing order
    nextId,     \* the number of objects the store has created
    pageCap,    \* the store answers a listing in at most this many pages
    lreq,       \* the requests of the listing routes under way, by slot
    lres,       \* the last listing request answered, as it ended
    sreq,       \* the POST /api/save-json requests under way, by slot
    sres,       \* the last save-json request answered, as it ended (seq flips per answer)
    promoted,   \* history: <<folderName, name>> of every promote answered with success
    fileState,  \* the client's FileState: markdownFiles, jsonFolders, isLoading, error
    load,       \* the loadFiles passes under way, by slot
    editor,     \* the editor page: document, selected item, editor value, result files
    stp,        \* the save handler of the editor page under way
    ui,         \* the last client call that ran (seq flips per call)
    ref         \* history: the listings and the outcome of the first pass that succeeded

histVars == <<ret, lastSet>>
fetchVars == <<queue, activeCount, fetching, dlMeta, dlStream>>
driveVars == <<objects, nextId, pageCap>>
listVars == <<lreq, lres>>
saveVars == <<sreq, sres, promoted>>
clientVars == <<fileState, load, editor, stp, ui, ref>>
vars == <<cache, now, ret, lastSet, queue, activeCount, fetching, dlMeta, dlStream,
          objects, nextId, pageCap, lreq, lres, sreq, sres, promoted,
          fileState, load, editor, stp, ui, ref>>

\* what the actions of one part of the server leave alone
notCache == <<fetchVars, driveVars, listVars, saveVars, clientVars>>
notFetch == <<histVars, driveVars, listVars, saveVars, clientVars>>
notList == <<histVars, fetchVars, saveVars, clientVars>>
notSave == <<histVars, fetchVars, listVars, clientVars>>
\* what the client leaves alone
serverVars == <<cache, now, histVars, fetchVars, listVars>>

(* ------------------------------ constants ------------------------------ *)
CACHE_TTL_SEC == 300
MAX_PARALLEL_DOWNLOADS == 5

(* -------------------------------- bounds ------------------------------- *)
MaxClock == 302
MaxLive == 6
MaxPages == 3
ListSlots == {1}
SaveSlots == {1, 2}
LoadSlots == {1, 2}
MaxPasses == 2
MaxObjects == 3
FileIds == {"a", "b"}
TickSteps == {149, 150, 151}

Undefined == "undefined"
NoCall == [seq |-> 0, op |-> "none", k |-> "", v |-> ""]
NoSet == [set |-> FALSE]

(* ------------------------------- strings ------------------------------- *)
\* String.prototype.startsWith
StartsWith(k, pref) ==
    /\ Len(pref) <= Len(k)
    /\ SubSeq(k, 1, Len(pref)) = pref

(* --------------------------------- cache ------------------------------- *)
EmptyCache == [k \in {} |-> NoSet]

\* NodeCache _check: an entry is expired once its expiry time lies in the past
ExpiredNever(e, t) == FALSE
Expired(e, t) == e.t < t

\* cache.keys(): every stored key, expired or not
CacheKeys(c) == DOMAIN c

\* cache.del(k)
CacheRemove(c, ks) == [k \in (DOMAIN c) \ ks |-> c[k]]

\* `if (hit)`: cache.get(k) found a live entry
CacheHit(c, t, k) == k \in DOMAIN c /\ ~Expired(c[k], t)

\* cacheGet = cache.get(k): the value of a live entry, undefined otherwise
cacheGet(c, t, k) ==
    IF CacheHit(c, t, k) THEN c[k].v ELSE Undefined

\* cache.get deletes the entry it finds expired (deleteOnExpire)
CacheAfterGet(c, t, k) ==
    IF k \in DOMAIN c /\ Expired(c[k], t) THEN CacheRemove(c, {k}) ELSE c

\* cacheSet = cache.set(k, v): the whole entry is replaced, ttl = stdTTL
cacheSet(c, t, k, v) ==
    [x \in (DOMAIN c) \cup {k} |->
        IF x = k THEN [v |-> v, t |-> t + CACHE_TTL_SEC] ELSE c[x]]

\* cacheDel = (pref='') => pref ? keys().forEach(startsWith && del) : flushAll()
cacheDelAll(c, pref) == EmptyCache
cacheDelFlushOnly(c, pref) == IF pref = Undefined \/ pref = "" THEN EmptyCache ELSE c
cacheDelExact(c, pref) ==
    IF pref = Undefined \/ pref = ""
    THEN EmptyCache
    ELSE CacheRemove(c, {k \in CacheKeys(c) : k = pref})
cacheDel(c, pref) ==
    IF pref = Undefined \/ pref = ""
    THEN EmptyCache
    ELSE CacheRemove(c, {k \in CacheKeys(c) : StartsWith(k, pref)})

\* the keys an invalidation with this prefix covers
Covers(pref, k) == pref = Undefined \/ pref = "" \/ StartsWith(k, pref)

HistAfterDel(h, pref) == [k \in DOMAIN h |-> IF Covers(pref, k) THEN NoSet ELSE h[k]]

(* ----------------------- the cache helpers, called --------------------- *)
CacheKeySet == {"file-a", "file-b", "result-index"}
CacheValues == {"v1", "v2"}
Prefixes == {Undefined, "", "file-", "file-a", "result-index", "r", "zz"}
\* req.body of POST /cache/clear: absent, without keyPrefix, or with one
NoBody == [present |-> FALSE]
ClearBodies == {NoBody} \cup {[present |-> TRUE, keyPrefix |-> p] : p \in Prefixes}

CallCacheSet(k, v) ==
    /\ cache' = cacheSet(cache, now, k, v)
    /\ ret' = [seq |-> 1 - ret.seq, op |-> "cacheSet", k |-> k, v |-> v]
    /\ lastSet' = [lastSet EXCEPT ![k] = [set |-> TRUE, v |-> v, at |-> now]]
    /\ UNCHANGED <<now, notCache>>

CallCacheGet(k) ==
    /\ ret' = [seq |-> 1 - ret.seq, op |-> "cacheGet", k |-> k, v |-> cacheGet(cache, now, k)]
    /\ cache' = CacheAfterGet(cache, now, k)
    /\ UNCHANGED <<now, lastSet, notCache>>

CallCacheDel(pref) ==
    /\ cache' = cacheDel(cache, pref)
    /\ ret' = [seq |-> 1 - ret.seq, op |-> "cacheDel", k |-> pref, v |-> Undefined]
    /\ lastSet' = HistAfterDel(lastSet, pref)
    /\ UNCHANGED <<now, notCache>>

\* POST /api/cache/clear: const { keyPrefix = '' } = req.body ?? {}; cacheDel(keyPrefix)
KeyPrefixOf(body) ==
    IF ~body.present THEN ""
    ELSE IF body.keyPrefix = Undefined THEN "" ELSE body.keyPrefix

PostCacheClear(body) ==
    /\ cache' = cacheDel(cache, KeyPrefixOf(body))
    /\ ret' = [seq |-> 1 - ret.seq, op |-> "cache/clear", k |-> KeyPrefixOf(body),
               v |-> IF KeyPrefixOf(body) = "" THEN "all" ELSE KeyPrefixOf(body)]
    /\ lastSet' = HistAfterDel(lastSet, KeyPrefixOf(body))
    /\ UNCHANGED <<now, notCache>>

\* time passes
Tick(d) ==
    /\ now + d <= MaxClock
    /\ now' = now + d
    /\ UNCHANGED <<cache, ret, lastSet, notCache>>

\* NodeCache's periodic _checkData (every checkperiod): expired entries go
Sweep ==
    /\ \E k \in DOMAIN cache : Expired(cache[k], now)
    /\ cache' = CacheRemove(cache, {k \in DOMAIN cache : Expired(cache[k], now)})
    /\ UNCHANGED <<now, ret, lastSet, notCache>>

(* ------------------------------ the store ------------------------------ *)
MARKDOWN_FOLDER_ID == "md-root"
JSON_FOLDER_ID == "json-root"
RESULT_FOLDER_ID == "result-root"
FolderMime == "application/vnd.google-apps.folder"
JsonMime == "application/json"
TextMime == "text/markdown"
Wildcard == "*"
PAGE_SIZE == 1000
NoToken == -1

Obj(id, name, parent, mime) == [id |-> id, name |-> name, parent |-> parent, mime |-> mime]

\* q: parent, name and mimeType conditions of a files.list query
Query(parent, name, mime) == [parent |-> parent, name |-> name, mime |-> mime]

Matches(o, q) ==
    /\ o.parent = q.parent
    /\ q.name = Wildcard \/ o.name = q.name
    /\ q.mime = Wildcard \/ o.mime = q.mime

\* files(id,name,...): the fields of an object a listing returns
Entry(o) == [id |-> o.id, name |-> o.name]

RECURSIVE Listing(_, _)
Listing(objs, q) ==
    IF objs = <<>> THEN <<>>
    ELSE (IF Matches(Head(objs), q) THEN <<Entry(Head(objs))>> ELSE <<>>)
         \o Listing(Tail(objs), q)

Min(a, b) == IF a < b THEN a ELSE b

DriveError == [error |-> TRUE, files |-> <<>>, nextPageToken |-> NoToken]

\* drive.files.list({q, pageSize, pageToken}): the store answers with the next
\* n entries after the token's position, n of its own choosing, and a
\* continuation token unless the listing is exhausted (the last page of an
\* exhausted listing may also come empty, behind a token)
Pages(objs, q, pageToken, asked, cap) ==
    LET all == Listing(objs, q)
        off == Min(IF pageToken = NoToken THEN 0 ELSE pageToken, Len(all))
        rem == Len(all) - off
        last == asked + 1 >= cap
    IN  {[error |-> FALSE,
          files |-> SubSeq(all, off + 1, off + n),
          nextPageToken |-> IF more THEN off + n ELSE NoToken] :
            <<n, more>> \in {x \in (0..Min(rem, PAGE_SIZE)) \X BOOLEAN :
                              /\ x[1] < rem => x[2]
                              /\ last => (x[1] = rem /\ ~x[2])
                              /\ rem > PAGE_SIZE => x[2]}}

(* ------------------------------- listAll ------------------------------- *)
\* let out = [], pageToken = null
NewCall(q) == [q |-> q, out |-> <<>>, pageToken |-> NoToken, log |-> <<>>, st |-> "awaiting"]
NoCallYet == [q |-> Query("", Wildcard, Wildcard), out |-> <<>>, pageToken |-> NoToken,
              log |-> <<>>, st |-> "none"]

\* if (data.files?.length) out.push(...data.files)
AccumulateLastPage(out, files) == IF Len(files) > 0 THEN files ELSE out
Accumulate(out, files) == IF Len(files) > 0 THEN out \o files ELSE out

\* pageToken = data.nextPageToken; } while (pageToken)
listAllStep(c, data) ==
    [c EXCEPT !.out = Accumulate(c.out, data.files),
              !.pageToken = data.nextPageToken,
              !.log = Append(c.log, [pageToken |-> c.pageToken, files |-> data.files,
                                     nextPageToken |-> data.nextPageToken]),
              !.st = IF data.nextPageToken # NoToken THEN "awaiting" ELSE "returned"]

\* a page request rejects: the await throws out of listAll, out is dropped
listAllPartial(c) == [c EXCEPT !.st = "returned"]
listAllThrow(c) == [c EXCEPT !.st = "thrown", !.out = <<>>]

\* one page request of a listAll call comes back
listAllNext(c, data) == IF data.error THEN listAllThrow(c) ELSE listAllStep(c, data)

(* --------------------------- listing routes ---------------------------- *)
Routes == {"markdown-files", "json-folders", "result-files"}

IndexKey(route) ==
    CASE route = "markdown-files" -> "markdown-index"
      [] route = "json-folders" -> "json-index"
      [] route = "result-files" -> "result-index"

TopQuery(route) ==
    CASE route = "markdown-files" -> Query(MARKDOWN_FOLDER_ID, Wildcard, Wildcard)
      [] route = "json-folders" -> Query(JSON_FOLDER_ID, Wildcard, FolderMime)
      [] route = "result-files" -> Query(RESULT_FOLDER_ID, Wildcard, FolderMime)

SubQuery(f) == Query(f.id, Wildcard, JsonMime)

\* folders.map(async f => ({...f, files}))  /  ({folderId, folderName, files})
Joined(route, f, files) ==
    IF route = "json-folders"
    THEN [id |-> f.id, name |-> f.name, files |-> files]
    ELSE [folderId |-> f.id, folderName |-> f.name, files |-> files]

ErrorBody(route) ==
    CASE route = "markdown-files" -> <<"Failed to list markdown files">>
      [] route = "json-folders" -> <<"Failed to list JSON folders">>
      [] route = "result-files" -> <<"Failed to fetch result folder files">>

IdleList == [route |-> "", pc |-> "idle", call |-> NoCallYet, subs |-> <<>>,
             status |-> 0, body |-> <<>>, pageFailed |-> FALSE, seen |-> {}]

\* res.json(body) / res.status(500).json({error})
Respond(r, status, body) == [r EXCEPT !.pc = "done", !.status = status, !.body = body]

\* the route goes on after its top listAll settled as c
AfterTop(r, c) ==
    IF c.st = "awaiting" THEN [r EXCEPT !.call = c]
    ELSE IF c.st = "thrown" THEN Respond([r EXCEPT !.call = c], 500, ErrorBody(r.route))
    ELSE IF r.route = "markdown-files" \/ c.out = <<>>
         THEN Respond([r EXCEPT !.call = c], 200, c.out)
         ELSE [r EXCEPT !.call = c, !.pc = "subs",
                        !.subs = [i \in 1..Len(c.out) |-> NewCall(SubQuery(c.out[i]))]]

\* the route goes on after the listAll of its i-th folder settled as c
AfterSub(r, i, c) ==
    LET subs == [r.subs EXCEPT ![i] = c] IN
    IF c.st = "thrown"
    THEN Respond([r EXCEPT !.subs = subs], 500, ErrorBody(r.route))
    ELSE IF \A j \in 1..Len(subs) : subs[j].st = "returned"
         THEN Respond([r EXCEPT !.subs = subs], 200,
                      [j \in 1..Len(subs) |-> Joined(r.route, r.call.out[j], subs[j].out)])
         ELSE [r EXCEPT !.subs = subs]

\* a request that has answered leaves its slot
ListSettle(s, r2) ==
    IF r2.pc = "done"
    THEN lreq' = [lreq EXCEPT ![s] = IdleList] /\ lres' = r2
    ELSE lreq' = [lreq EXCEPT ![s] = r2] /\ lres' = lres

\* cacheSet(k, out) comes right before the successful res.json(out)
CacheAfterRoute(r2) ==
    IF r2.pc = "done" /\ r2.status = 200
    THEN cacheSet(cache, now, IndexKey(r2.route), r2.body)
    ELSE cache

\* GET /api/<route>: a cached index is sent at once, else the store is listed
ListStart(s, route) ==
    /\ lreq[s].pc = "idle"
    /\ cache' = CacheAfterGet(cache, now, IndexKey(route))
    /\ IF CacheHit(cache, now, IndexKey(route))
       THEN ListSettle(s, Respond([IdleList EXCEPT !.route = route, !.seen = promoted],
                                  200, cacheGet(cache, now, IndexKey(route))))
       ELSE /\ lreq' = [lreq EXCEPT ![s] =
                          [IdleList EXCEPT !.route = route, !.pc = "top", !.seen = promoted,
                                           !.call = NewCall(TopQuery(route))]]
            \* lres keeps the answer of the latest request only
            /\ lres' = IdleList
    /\ UNCHANGED <<now, driveVars, notList>>

\* a page of the route's top listing arrives
ListTopPage(s) ==
    /\ lreq[s].pc = "top"
    /\ \E data \in Pages(objects, lreq[s].call.q, lreq[s].call.pageToken,
                         Len(lreq[s].call.log), pageCap) :
         LET r2 == AfterTop(lreq[s], listAllNext(lreq[s].call, data)) IN
         /\ ListSettle(s, r2)
         /\ cache' = CacheAfterRoute(r2)
    /\ UNCHANGED <<now, driveVars, notList>>

\* a page request of the route's top listing fails
ListTopFail(s) ==
    /\ lreq[s].pc = "top"
    /\ LET r2 == AfterTop([lreq[s] EXCEPT !.pageFailed = TRUE],
                          listAllNext(lreq[s].call, DriveError)) IN
         /\ ListSettle(s, r2)
         /\ cache' = CacheAfterRoute(r2)
    /\ UNCHANGED <<now, driveVars, notList>>

\* a page of the listing of the i-th folder arrives
ListSubPage(s, i) ==
    /\ lreq[s].pc = "subs"
    /\ i \in 1..Len(lreq[s].subs)
    /\ lreq[s].subs[i].st = "awaiting"
    /\ \E data \in Pages(objects, lreq[s].subs[i].q, lreq[s].subs[i].pageToken,
                         Len(lreq[s].subs[i].log), pageCap) :
         LET r2 == AfterSub(lreq[s], i, listAllNext(lreq[s].subs[i], data)) IN
         /\ ListSettle(s, r2)
         /\ cache' = CacheAfterRoute(r2)
    /\ UNCHANGED <<now, driveVars, notList>>

\* a page request of the listing of the i-th folder fails
ListSubFail(s, i) ==
    /\ lreq[s].pc = "subs"
    /\ i \in 1..Len(lreq[s].subs)
    /\ lreq[s].subs[i].st = "awaiting"
    /\ LET r2 == AfterSub([lreq[s] EXCEPT !.pageFailed = TRUE], i,
                          listAllNext(lreq[s].subs[i], DriveError)) IN
         /\ ListSettle(s, r2)
         /\ cache' = CacheAfterRoute(r2)
    /\ UNCHANGED <<now, driveVars, notList>>

\* every listAll call a listing request has made
CallsOf(r) == {r.call} \cup {r.subs[i] : i \in 1..Len(r.subs)}

AllCalls == CallsOf(lres) \cup UNION {CallsOf(lreq[s]) : s \in ListSlots}

RECURSIVE Flatten(_)
Flatten(pages) == IF pages = <<>> THEN <<>> ELSE Head(pages).files \o Flatten(Tail(pages))

(* --------------------------- POST /api/save-json ----------------------- *)
\* jsonFile.content as the request carries it
NoContent == [type |-> "undefined", v |-> ""]
ObjectContent == [type |-> "object", v |-> "x:1"]
EmptyString == [type |-> "string", v |-> ""]
FolderNames == {"rpt_2024_01_data"}
FileNames == {"a.json"}
\* req.body: folderName and jsonFile, either of which may be missing
NoJsonFile == [present |-> FALSE, name |-> Undefined, content |-> NoContent]
JsonFile(n, c) == [present |-> TRUE, name |-> n, content |-> c]
Body(f, j) == [folderName |-> f, jsonFile |-> j]
\* complete bodies, and bodies with one part missing or empty
Bodies ==
    {Body(f, JsonFile(n, ObjectContent)) : f \in FolderNames, n \in FileNames}
    \cup {Body("rpt_2024_01_data", JsonFile("a.json", EmptyString))}
    \cup {Body(f, JsonFile("a.json", ObjectContent)) : f \in {Undefined, ""}}
    \cup {Body("rpt_2024_01_data", JsonFile(n, ObjectContent)) : n \in {Undefined, ""}}
    \cup {Body("rpt_2024_01_data", JsonFile("a.json", NoContent)),
          Body("rpt_2024_01_data", NoJsonFile)}

\* !x for a string or a missing field
Falsy(x) == x = Undefined \/ x = ""

\* if (!folderName || !jsonFile.name || jsonFile.content === undefined) -> 400
BadRequestNoContentCheck(body) == Falsy(body.folderName) \/ Falsy(body.jsonFile.name)
BadRequest(body) ==
    \/ Falsy(body.folderName)
    \/ Falsy(body.jsonFile.name)
    \/ body.jsonFile.content.type = "undefined"

IdleSave == [seq |-> 0, pc |-> "idle",
             input |-> [folderName |-> Undefined, jsonFile |-> NoJsonFile],
             call |-> NoCallYet, destFolderId |-> Undefined, target |-> Undefined,
             status |-> 0, calls |-> 0, solo |-> TRUE, hadFile |-> FALSE, dropped |-> {}]

Active(r) == r.pc \notin {"idle", "done"}

\* a request that has answered leaves its slot
SaveSettle(rq, s, r2) ==
    IF r2.pc = "done"
    THEN /\ sreq' = [rq EXCEPT ![s] = IdleSave]
         /\ sres' = [r2 EXCEPT !.seq = 1 - sres.seq]
    ELSE /\ sreq' = [rq EXCEPT ![s] = r2]
         /\ sres' = sres

NewId == "n" \o ToString(nextId + 1)

RECURSIVE Without(_, _)
Without(objs, id) ==
    IF objs = <<>> THEN <<>>
    ELSE (IF Head(objs).id = id THEN <<>> ELSE <<Head(objs)>>) \o Without(Tail(objs), id)

Exists(objs, id) == \E i \in 1..Len(objs) : objs[i].id = id

\* the objects called name in container parent
Named(objs, parent, name) == Listing(objs, Query(parent, name, JsonMime))

\* the containers called folderName under the results root
DestOf(objs, folderName) == Listing(objs, Query(RESULT_FOLDER_ID, folderName, FolderMime))

\* res.status(500).json({error}) from the catch
FailQuiet(r) == [r EXCEPT !.pc = "done", !.status = 200, !.call = NoCallYet,
                          !.target = Undefined, !.destFolderId = Undefined]
Fail500(r) == [r EXCEPT !.pc = "done", !.status = 500, !.call = NoCallYet,
                        !.target = Undefined, !.destFolderId = Undefined]

\* existingFiles = await listAll(`'${destFolderId}' in parents and name=...`)
IssueExisting(r, dest) ==
    [r EXCEPT !.pc = "existing", !.destFolderId = dest, !.calls = @ + 1,
              !.call = NewCall(Query(dest, r.input.jsonFile.name, JsonMime))]

\* the other requests under way learn that they did not run alone
Overlapped(rq, s) ==
    [x \in SaveSlots |->
        IF x # s /\ Active(rq[x]) THEN [rq[x] EXCEPT !.solo = FALSE] ELSE rq[x]]

\* <<folderName, name>> of a request body
PairOf(body) == <<body.folderName, body.jsonFile.name>>

\* the request arrives: validation, then the listing of the destination folder
SaveStart(s, body) ==
    /\ sreq[s].pc = "idle"
    /\ IF BadRequest(body)
       THEN /\ SaveSettle(sreq, s,
                [IdleSave EXCEPT !.pc = "done", !.status = 400, !.input = body])
            /\ UNCHANGED <<promoted, lreq>>
       ELSE /\ SaveSettle(Overlapped(sreq, s), s,
                [IdleSave EXCEPT !.pc = "matches", !.input = body, !.calls = 1,
                    !.solo = \A x \in SaveSlots \ {s} : ~Active(sreq[x]),
                    !.hadFile = /\ DestOf(objects, body.folderName) # <<>>
                                /\ Named(objects, DestOf(objects, body.folderName)[1].id,
                                         body.jsonFile.name) # <<>>,
                    !.call = NewCall(Query(RESULT_FOLDER_ID, body.folderName, FolderMime))])
            \* history: the file is being replaced, its last promote no longer stands
            /\ promoted' = promoted \ {PairOf(body)}
            /\ lreq' = [x \in DOMAIN lreq |-> [lreq[x] EXCEPT !.seen = @ \ {PairOf(body)}]]
    /\ UNCHANGED <<cache, now, driveVars, lres, histVars, fetchVars, clientVars>>

\* what the request does once the listing of folders called folderName settled
AfterMatchesCreate(r, c) ==
    IF c.st = "awaiting" THEN [r EXCEPT !.call = c]
    ELSE IF c.st = "thrown" THEN Fail500(r)
    ELSE [r EXCEPT !.call = NoCallYet, !.pc = "mkdir", !.calls = @ + 1]
AfterMatches(r, c) ==
    IF c.st = "awaiting" THEN [r EXCEPT !.call = c]
    ELSE IF c.st = "thrown" THEN Fail500(r)
    ELSE IF Len(c.out) > 0
         THEN IssueExisting(r, c.out[1].id)
         ELSE [r EXCEPT !.call = NoCallYet, !.pc = "mkdir", !.calls = @ + 1]

SaveMatchesPage(s) ==
    /\ sreq[s].pc = "matches"
    /\ \E data \in Pages(objects, sreq[s].call.q, sreq[s].call.pageToken,
                         Len(sreq[s].call.log), pageCap) :
         SaveSettle(sreq, s, AfterMatches(sreq[s], listAllNext(sreq[s].call, data)))
    /\ UNCHANGED <<cache, now, driveVars, promoted, notSave>>

\* drive.files.create of the destination folder succeeds
SaveFolderCreated(s) ==
    /\ sreq[s].pc = "mkdir"
    /\ nextId < MaxObjects
    /\ objects' = Append(objects, Obj(NewId, sreq[s].input.folderName,
                                      RESULT_FOLDER_ID, FolderMime))
    /\ nextId' = nextId + 1
    /\ SaveSettle(sreq, s, IssueExisting(sreq[s], NewId))
    /\ UNCHANGED <<cache, now, pageCap, promoted, notSave>>

\* what the request does once the listing of same-named files settled
AfterExisting(r, c) ==
    IF c.st = "awaiting" THEN [r EXCEPT !.call = c]
    ELSE IF c.st = "thrown" THEN Fail500(r)
    ELSE IF Len(c.out) > 0
         THEN [r EXCEPT !.call = NoCallYet, !.pc = "delete", !.target = c.out[1].id,
                        !.calls = @ + 1]
         ELSE [r EXCEPT !.call = NoCallYet, !.pc = "create", !.calls = @ + 1]

SaveExistingPage(s) ==
    /\ sreq[s].pc = "existing"
    /\ \E data \in Pages(objects, sreq[s].call.q, sreq[s].call.pageToken,
                         Len(sreq[s].call.log), pageCap) :
         SaveSettle(sreq, s, AfterExisting(sreq[s], listAllNext(sreq[s].call, data)))
    /\ UNCHANGED <<cache, now, driveVars, promoted, notSave>>

\* drive.files.delete of the first same-named file succeeds
SaveDeleted(s) ==
    /\ sreq[s].pc = "delete"
    /\ Exists(objects, sreq[s].target)
    /\ objects' = Without(objects, sreq[s].target)
    /\ SaveSettle(sreq, s, [sreq[s] EXCEPT !.pc = "create", !.calls = @ + 1])
    /\ UNCHANGED <<cache, now, nextId, pageCap, promoted, notSave>>

\* drive.files.create of the file succeeds: cacheDel('result-index'), res.json
SaveCreated(s) ==
    /\ sreq[s].pc = "create"
    /\ nextId < MaxObjects
    /\ objects' = Append(objects, Obj(NewId, sreq[s].input.jsonFile.name,
                                      sreq[s].destFolderId, JsonMime))
    /\ nextId' = nextId + 1
    /\ cache' = cacheDel(cache, "result-index")
    /\ SaveSettle(sreq, s, [sreq[s] EXCEPT !.pc = "done", !.status = 200,
                                           !.target = Undefined,
                                           !.dropped = (DOMAIN cache) \ (DOMAIN cache')])
    /\ promoted' = promoted \cup {PairOf(sreq[s].input)}
    /\ UNCHANGED <<now, pageCap, notSave>>

\* the store call the request is waiting for fails (a delete also fails
\* when its target is gone): the catch answers 500
SaveCallFail(s) ==
    /\ Active(sreq[s])
    /\ SaveSettle(sreq, s, Fail500(sreq[s]))
    /\ UNCHANGED <<cache, now, driveVars, promoted, notSave>>

(* ------------------- byte fetches and the admission gate ---------------- *)
FileKey(fileId) == "file-" \o fileId

\* the Buffer fetchFileBytes builds from the store's answer for this object
BytesOf(fileId) == "bytes-" \o fileId

RECURSIVE SumOver(_, _)
SumOver(f, S) ==
    IF S = {} THEN 0
    ELSE LET x == CHOOSE y \in S : TRUE IN f[x] + SumOver(f, S \ {x})
Sum(f) == SumOver(f, DOMAIN f)

\* requests the server is working on
Live == Len(queue) + Sum(fetching) + Sum(dlMeta) + Sum(dlStream)

\* drive.files.get(alt=media) requests issued and not yet completed
InFlightByteFetches == Sum(fetching) + Sum(dlStream)

\* p-limit next(): the freed slot goes to the oldest waiting call; a call
\* that finds its bytes in the cache returns at once and frees the slot
\* again, a call that misses issues its fetch and keeps the slot
RECURSIVE Drain(_, _, _)
Drain(q, c, t) ==
    IF q = <<>> THEN [queue |-> q, start |-> Undefined, cache |-> c]
    ELSE IF CacheHit(c, t, FileKey(Head(q)))
         THEN Drain(Tail(q), c, t)
         ELSE [queue |-> Tail(q), start |-> Head(q),
               cache |-> CacheAfterGet(c, t, FileKey(Head(q)))]

\* the slot of a finished fetch of fileId is released over cache c
Release(fileId, c) ==
    LET d == Drain(queue, c, now) IN
    /\ queue' = d.queue
    /\ cache' = d.cache
    /\ IF d.start = Undefined
       THEN /\ activeCount' = activeCount - 1
            /\ fetching' = [fetching EXCEPT ![fileId] = @ - 1]
       ELSE /\ activeCount' = activeCount
            /\ fetching' = IF d.start = fileId THEN fetching
                           ELSE [fetching EXCEPT ![fileId] = @ - 1, ![d.start] = @ + 1]

\* GET /api/files/:fileId/content arrives: limit(() => fetchFileBytes(fileId))
GetContent(fileId) ==
    /\ Live < MaxLive
    /\ IF activeCount < MAX_PARALLEL_DOWNLOADS
       THEN \* a free slot: fetchFileBytes runs up to its first await
            /\ cache' = CacheAfterGet(cache, now, FileKey(fileId))
            /\ IF CacheHit(cache, now, FileKey(fileId))
               THEN UNCHANGED <<activeCount, fetching>>
               ELSE /\ activeCount' = activeCount + 1
                    /\ fetching' = [fetching EXCEPT ![fileId] = @ + 1]
            /\ UNCHANGED queue
       ELSE /\ queue' = Append(queue, fileId)
            /\ UNCHANGED <<cache, activeCount, fetching>>
    /\ UNCHANGED <<now, dlMeta, dlStream, notFetch>>

\* the store answers a fetch of fetchFileBytes: cacheSet(key, buf), res.send
FetchDone(fileId) ==
    /\ fetching[fileId] > 0
    /\ Release(fileId, cacheSet(cache, now, FileKey(fileId), BytesOf(fileId)))
    /\ UNCHANGED <<now, dlMeta, dlStream, notFetch>>

\* the store fails a fetch of fetchFileBytes: the route answers 500
FetchFailKeepsSlot(fileId) ==
    /\ fetching[fileId] > 0
    /\ fetching' = [fetching EXCEPT ![fileId] = @ - 1]
    /\ UNCHANGED <<cache, queue, activeCount, now, dlMeta, dlStream, notFetch>>
FetchFail(fileId) ==
    /\ fetching[fileId] > 0
    /\ Release(fileId, cache)
    /\ UNCHANGED <<now, dlMeta, dlStream, notFetch>>

\* GET /api/files/:fileId/download arrives: await drive.files.get(fields=name)
GetDownload(fileId) ==
    /\ Live < MaxLive
    /\ dlMeta' = [dlMeta EXCEPT ![fileId] = @ + 1]
    /\ UNCHANGED <<cache, now, queue, activeCount, fetching, dlStream, notFetch>>

\* the name arrives: a cached object is sent at once, otherwise the media
\* stream is requested from the store, outside the gate
DownloadNamed(fileId) ==
    /\ dlMeta[fileId] > 0
    /\ dlMeta' = [dlMeta EXCEPT ![fileId] = @ - 1]
    /\ cache' = CacheAfterGet(cache, now, FileKey(fileId))
    /\ dlStream' = IF CacheHit(cache, now, FileKey(fileId))
                   THEN dlStream
                   ELSE [dlStream EXCEPT ![fileId] = @ + 1]
    /\ UNCHANGED <<now, queue, activeCount, fetching, notFetch>>

\* the name request fails: 500
DownloadNameFail(fileId) ==
    /\ dlMeta[fileId] > 0
    /\ dlMeta' = [dlMeta EXCEPT ![fileId] = @ - 1]
    /\ UNCHANGED <<cache, now, queue, activeCount, fetching, dlStream, notFetch>>

\* stream 'end': cacheSet(`file-${fileId}`, Buffer.concat(chunks))
DownloadEnd(fileId) ==
    /\ dlStream[fileId] > 0
    /\ dlStream' = [dlStream EXCEPT ![fileId] = @ - 1]
    /\ cache' = cacheSet(cache, now, FileKey(fileId), BytesOf(fileId))
    /\ UNCHANGED <<now, queue, activeCount, fetching, dlMeta, notFetch>>

\* the media request fails: 500, nothing cached
DownloadFail(fileId) ==
    /\ dlStream[fileId] > 0
    /\ dlStream' = [dlStream EXCEPT ![fileId] = @ - 1]
    /\ UNCHANGED <<cache, now, queue, activeCount, fetching, dlMeta, notFetch>>

(* ------------------------- strings (client side) ----------------------- *)
UpperCase == "ABCDEFGHIJKLMNOPQRSTUVWXYZ"
LowerCase == "abcdefghijklmnopqrstuvwxyz"

LowerOf(ch) ==
    IF \E i \in 1..Len(UpperCase) : SubSeq(UpperCase, i, i) = ch
    THEN LET i == CHOOSE j \in 1..Len(UpperCase) : SubSeq(UpperCase, j, j) = ch
         IN  SubSeq(LowerCase, i, i)
    ELSE ch

\* s.toLowerCase()
RECURSIVE toLowerCase(_)
toLowerCase(s) ==
    IF s = "" THEN "" ELSE LowerOf(SubSeq(s, 1, 1)) \o toLowerCase(SubSeq(s, 2, Len(s)))

\* position of the first occurrence of sub in s at or after i, 0 when there is none
RECURSIVE IndexFrom(_, _, _)
IndexFrom(s, sub, i) ==
    IF i + Len(sub) - 1 > Len(s) THEN 0
    ELSE IF SubSeq(s, i, i + Len(sub) - 1) = sub THEN i
    ELSE IndexFrom(s, sub, i + 1)

IndexOf(s, sub) == IndexFrom(s, sub, 1)

\* s.includes(sub)
includes(s, sub) == IndexOf(s, sub) > 0

\* s.replace(pat, ''), pat a string: the first occurrence goes
ReplaceFirst(s, pat) ==
    LET i == IndexOf(s, pat) IN
    IF i = 0 THEN s ELSE SubSeq(s, 1, i - 1) \o SubSeq(s, i + Len(pat), Len(s))

\* s.replace(/<suf>$/, ''): a trailing suf goes
ReplaceSuffix(s, suf) ==
    IF Len(s) >= Len(suf) /\ SubSeq(s, Len(s) - Len(suf) + 1, Len(s)) = suf
    THEN SubSeq(s, 1, Len(s) - Len(suf))
    ELSE s

\* s.split(sep), sep one character
RECURSIVE Split(_, _)
Split(s, sep) ==
    LET i == IndexOf(s, sep) IN
    IF i = 0 THEN <<s>>
    ELSE <<SubSeq(s, 1, i - 1)>> \o Split(SubSeq(s, i + 1, Len(s)), sep)

\* parts.join(sep)
RECURSIVE Join(_, _)
Join(parts, sep) ==
    IF parts = <<>> THEN ""
    ELSE IF Len(parts) = 1 THEN parts[1]
    ELSE parts[1] \o sep \o Join(Tail(parts), sep)

\* parts.slice(0, n)
Slice(parts, n) == SubSeq(parts, 1, Min(n, Len(parts)))

(* ---------------------- client records (types.ts) ---------------------- *)
\* JsonFolder.progress: a number, or absent
NoProgress == [set |-> FALSE, pct |-> 0]
Progress(n) == [set |-> TRUE, pct |-> n]

\* response bodies as the client reads them (extractValidJson): a field the
\* server did not send reads as undefined
AsMarkdownFile(e) ==
    [id |-> e.id, name |-> e.name, matchingFolderId |-> Undefined, status |-> Undefined]
AsJsonFile(e) ==
    [id |-> e.id, name |-> e.name, content |-> NoContent, folderId |-> Undefined,
     edited |-> FALSE, approved |-> FALSE]
AsJsonFolder(e) ==
    [id |-> e.id, name |-> e.name,
     files |-> [i \in 1..Len(e.files) |-> AsJsonFile(e.files[i])],
     matchingMarkdownId |-> Undefined, progress |-> NoProgress]
AsMarkdownFiles(body) == [i \in 1..Len(body) |-> AsMarkdownFile(body[i])]
AsJsonFolders(body) == [i \in 1..Len(body) |-> AsJsonFolder(body[i])]

(* ----------------------- matchFilesWithFolders ------------------------- *)
KEY_SEGMENTS == 3

\* mdFile.name.replace('.md', '').split('_').slice(0, 3).join('_')
mdPrefix(name) == Join(Slice(Split(ReplaceFirst(name, ".md"), "_"), KEY_SEGMENTS), "_")

\* folder.name.split('_').slice(0, 3).join('_')
folderPrefix(name) == Join(Slice(Split(name, "_"), KEY_SEGMENTS), "_")

\* index of the first element of seq that satisfies Test, 0 when none does
FirstIndex(seq, Test(_)) ==
    IF \E i \in 1..Len(seq) : Test(seq[i])
    THEN CHOOSE i \in 1..Len(seq) :
            /\ Test(seq[i])
            /\ \A j \in 1..(i - 1) : ~Test(seq[j])
    ELSE 0

\* matchedJsonFolders.find(folder => folderPrefix.toLowerCase() === mdPrefix.toLowerCase())
FindMatchingFolder(folders, mdName) ==
    LET SameKey(folder) ==
            toLowerCase(folderPrefix(folder.name)) = toLowerCase(mdPrefix(mdName))
    IN  FirstIndex(folders, SameKey)

\* the body of matchedMarkdownFiles.forEach for the i-th document
MatchOne(acc, i) ==
    LET k == FindMatchingFolder(acc.matchedJsonFolders, acc.matchedMarkdownFiles[i].name) IN
    IF k = 0 THEN acc
    ELSE LET fid == acc.matchedJsonFolders[k].id
             HasId(f) == f.id = fid
             folderIndex == FirstIndex(acc.matchedJsonFolders, HasId)
         IN  [matchedMarkdownFiles |->
                 [acc.matchedMarkdownFiles EXCEPT ![i].matchingFolderId = fid],
              matchedJsonFolders |->
                 [acc.matchedJsonFolders EXCEPT ![folderIndex].matchingMarkdownId =
                                                    acc.matchedMarkdownFiles[i].id]]

RECURSIVE MatchFrom(_, _)
MatchFrom(acc, i) ==
    IF i > Len(acc.matchedMarkdownFiles) THEN acc ELSE MatchFrom(MatchOne(acc, i), i + 1)

matchFilesWithFolders(markdownFiles, jsonFolders) ==
    MatchFrom([matchedMarkdownFiles |-> markdownFiles, matchedJsonFolders |-> jsonFolders], 1)

(* ------------------ calcProgress, determineFileStatuses ---------------- *)
\* how many elements of seq satisfy Test
Count(seq, Test(_)) == Cardinality({i \in 1..Len(seq) : Test(seq[i])})

\* (part / whole) * 100, in whole percent
Percent(part, whole) == (part * 100) \div whole

\* files.length ? (files.filter(f => f.approved).length / files.length) * 100 : 0
calcProgress(files) ==
    LET Approved(f) == f.approved IN
    IF Len(files) > 0 THEN Progress(Percent(Count(files, Approved), Len(files)))
    ELSE Progress(0)

\* the body of markdownFiles.map for the i-th document; folder.progress is
\* written into the folder object the pass goes on to store
StatusOne(acc, i, resultFolders) ==
    LET md == acc.markdownFiles[i]
        IsMatch(f) == f.id = md.matchingFolderId
        k == FirstIndex(acc.jsonFolders, IsMatch)
    IN
    IF k = 0 THEN [acc EXCEPT !.markdownFiles[i].status = "pending"]
    ELSE LET folder == acc.jsonFolders[k]
             mdBase == ReplaceSuffix(md.name, ".md")
             Named2(r) == includes(mdBase, r.folderName)
             rk == FirstIndex(resultFolders, Named2)
         IN
         IF rk = 0
         THEN LET Edited(f) == f.edited IN
              [acc EXCEPT !.markdownFiles[i].status =
                  IF \E j \in 1..Len(folder.files) : Edited(folder.files[j])
                  THEN "in-progress" ELSE "pending"]
         ELSE LET resultNames == {resultFolders[rk].files[j].name :
                                     j \in 1..Len(resultFolders[rk].files)}
                  InResult(f) == f.name \in resultNames
                  completed == Count(folder.files, InResult)
                  total == Len(folder.files)
              IN  [markdownFiles |->
                      [acc.markdownFiles EXCEPT ![i].status =
                          IF completed = 0 THEN "pending"
                          ELSE IF completed < total THEN "in-progress"
                          ELSE "completed"],
                   jsonFolders |->
                      [acc.jsonFolders EXCEPT ![k].progress =
                          IF total > 0 THEN Progress(Percent(completed, total))
                          ELSE Progress(0)]]

RECURSIVE StatusFrom(_, _, _)
StatusFrom(acc, i, resultFolders) ==
    IF i > Len(acc.markdownFiles) THEN acc
    ELSE StatusFrom(StatusOne(acc, i, resultFolders), i + 1, resultFolders)

determineFileStatuses(markdownFiles, jsonFolders, resultFolders) ==
    StatusFrom([markdownFiles |-> markdownFiles, jsonFolders |-> jsonFolders], 1, resultFolders)

(* ------------------------ FileProvider: loadFiles ---------------------- *)
NoError == "null"
LoadError == "Failed to load files. Please try again."

\* const initialState: FileState
initialState == [markdownFiles |-> <<>>, jsonFolders |-> <<>>, isLoading |-> FALSE,
                 error |-> NoError]

\* what GET /api/<route> answers from the store as it is
RouteBody(objs, route) ==
    LET top == Listing(objs, TopQuery(route)) IN
    IF route = "markdown-files" THEN top
    ELSE [i \in 1..Len(top) |-> Joined(route, top[i], Listing(objs, SubQuery(top[i])))]

NoneGot == [r \in Routes |-> FALSE]
IdleLoad == [pc |-> "idle", forced |-> FALSE, got |-> NoneGot, markdownFiles |-> <<>>,
             jsonFolders |-> <<>>, resultFolders |-> <<>>]

NoUi == [seq |-> 0, op |-> "none", id |-> Undefined, calls |-> {}]
Ui(op, id) == [seq |-> 1 - ui.seq, op |-> op, id |-> id, calls |-> {}]
UiCalls(op, id, calls) == [seq |-> 1 - ui.seq, op |-> op, id |-> id, calls |-> calls]

NoRef == [set |-> FALSE, listings |-> <<>>, markdownFiles |-> <<>>, jsonFolders |-> <<>>,
          last |-> <<>>, passes |-> 0]

\* matchFilesWithFolders, then determineFileStatuses, on the three listings
Reconcile(l) ==
    LET m == matchFilesWithFolders(AsMarkdownFiles(l.markdownFiles),
                                   AsJsonFolders(l.jsonFolders))
    IN  determineFileStatuses(m.matchedMarkdownFiles, m.matchedJsonFolders, l.resultFolders)

\* setFileState({markdownFiles, jsonFolders, isLoading: false, error: null})
StoreAppended(prev, d) ==
    [markdownFiles |-> prev.markdownFiles \o d.markdownFiles,
     jsonFolders |-> prev.jsonFolders \o d.jsonFolders,
     isLoading |-> FALSE, error |-> NoError]
StoreFresh(prev, d) ==
    [markdownFiles |-> d.markdownFiles, jsonFolders |-> d.jsonFolders,
     isLoading |-> FALSE, error |-> NoError]

\* loadFiles(forceRefresh): isLoading is set, clearCache() only stamps the
\* client's local storage (the stamp rides on the request URLs as ?t=, which
\* the routes do not read), and the three listing requests go out together
LoadStart(s, forceRefresh) ==
    /\ load[s].pc = "idle"
    /\ fileState' = [fileState EXCEPT !.isLoading = TRUE, !.error = NoError]
    /\ load' = [load EXCEPT ![s] = [IdleLoad EXCEPT !.pc = "fetching",
                                                   !.forced = forceRefresh]]
    /\ ui' = Ui("loadFiles", Undefined)
    /\ UNCHANGED <<editor, stp, ref, serverVars, driveVars, saveVars>>

\* await Promise.all([...]): every one of the three listings has arrived
AnyArrived(l) == \E r \in Routes : l.got[r]
AllArrived(l) == \A r \in Routes : l.got[r]

\* one of the three listings arrives; with the last one the pass reconciles
\* and stores the outcome
LoadArrive(s, route, body) ==
    /\ load[s].pc = "fetching"
    /\ ~load[s].got[route]
    /\ LET l == [load[s] EXCEPT
                    !.got[route] = TRUE,
                    !.markdownFiles = IF route = "markdown-files" THEN body ELSE @,
                    !.jsonFolders = IF route = "json-folders" THEN body ELSE @,
                    !.resultFolders = IF route = "result-files" THEN body ELSE @]
       IN  IF AllArrived(l)
           THEN /\ fileState' = StoreFresh(fileState, Reconcile(l))
                /\ load' = [load EXCEPT ![s] = IdleLoad]
                /\ ui' = Ui("loadFiles:done", Undefined)
                \* history: the first pass is kept whole, of later ones the listings
                /\ ref' = LET got == <<l.markdownFiles, l.jsonFolders, l.resultFolders>> IN
                          IF ref.set
                          THEN [ref EXCEPT !.last = got, !.passes = Min(@ + 1, MaxPasses)]
                          ELSE [set |-> TRUE, listings |-> got,
                                markdownFiles |-> fileState'.markdownFiles,
                                jsonFolders |-> fileState'.jsonFolders,
                                last |-> got, passes |-> 1]
                \* the folders are new objects: the page's effect on jsonFolder is due
                /\ editor' = [editor EXCEPT !.asked = FALSE]
           ELSE /\ load' = [load EXCEPT ![s] = l]
                /\ UNCHANGED <<fileState, ui, ref, editor>>
    /\ UNCHANGED stp

\* ... as a listing of the store made when it is answered
LoadGot(s, route) ==
    /\ LoadArrive(s, route, RouteBody(objects, route))
    /\ UNCHANGED <<serverVars, driveVars, saveVars>>

\* the catch: setFileState(prev => ({...prev, isLoading: false, error}))
LoadFailedCleared(prev) == [initialState EXCEPT !.error = LoadError]
LoadFailed(prev) == [prev EXCEPT !.isLoading = FALSE, !.error = LoadError]

\* one of the three listing requests fails: Promise.all rejects, the catch
\* keeps the lists and sets the error
LoadReject(s) ==
    /\ load[s].pc = "fetching"
    /\ fileState' = LoadFailed(fileState)
    /\ load' = [load EXCEPT ![s] = IdleLoad]
    /\ ui' = Ui("loadFiles:failed", Undefined)
    /\ UNCHANGED <<editor, stp, ref>>

LoadFail(s) == LoadReject(s) /\ UNCHANGED <<serverVars, driveVars, saveVars>>

\* the pass's request for a listing reaches its route on the server
LoadSend(s, route) ==
    /\ load[s].pc = "fetching"
    /\ ~load[s].got[route]
    /\ lres.pc # "done"
    /\ \A x \in DOMAIN lreq : lreq[x].pc = "idle"
    /\ ListStart(1, route)

\* the route's answer reaches the pass: a 200 is a listing, anything else
\* makes fetch* throw
LoadDeliver(s) ==
    /\ lres.pc = "done"
    /\ IF lres.status = 200 THEN LoadArrive(s, lres.route, lres.body) ELSE LoadReject(s)
    /\ lres' = IdleList
    /\ UNCHANGED <<cache, now, histVars, fetchVars, lreq, driveVars, saveVars>>

(* -------------- FileProvider: updateJsonFile, approveJsonFile ----------- *)
SaveError == "Failed to save file to results folder. Please try again."

\* the container found by the item it holds
OwnsFileById(folder, jsonFile) == \E j \in 1..Len(folder.files) : folder.files[j].id = jsonFile.id
\* folder.id === jsonFile.folderId
OwnsFile(folder, jsonFile) == folder.id = jsonFile.folderId

\* folder.files.map(file => file.id === jsonFile.id ? Change(file) : file)
MapFile(files, jsonFile, Change(_)) ==
    [j \in 1..Len(files) |-> IF files[j].id = jsonFile.id THEN Change(files[j]) ELSE files[j]]

\* prev.jsonFolders.map(folder => folder.id === jsonFile.folderId ? {...} : folder)
MapFolders(folders, jsonFile, Change(_)) ==
    [k \in 1..Len(folders) |->
        IF OwnsFile(folders[k], jsonFile)
        THEN [folders[k] EXCEPT
                 !.files = MapFile(folders[k].files, jsonFile, Change),
                 !.progress = calcProgress(MapFile(folders[k].files, jsonFile, Change))]
        ELSE folders[k]]

updateJsonFile(prev, jsonFile, content) ==
    LET Change(file) == [file EXCEPT !.content = content, !.edited = TRUE] IN
    [prev EXCEPT !.jsonFolders = MapFolders(prev.jsonFolders, jsonFile, Change)]

approveJsonFile(prev, jsonFile) ==
    LET Change(file) == [file EXCEPT !.approved = TRUE]
        updatedFolders == MapFolders(prev.jsonFolders, jsonFile, Change)
        StatusOf(md) ==
            LET IsMatch(f) == f.id = md.matchingFolderId
                k == FirstIndex(updatedFolders, IsMatch)
            IN  IF k = 0 THEN md.status
                ELSE IF updatedFolders[k].progress = Progress(100) THEN "completed"
                ELSE IF updatedFolders[k].progress.set /\ updatedFolders[k].progress.pct > 0
                     THEN "in-progress"
                ELSE "pending"
    IN  [prev EXCEPT
            !.jsonFolders = updatedFolders,
            !.markdownFiles = [i \in 1..Len(prev.markdownFiles) |->
                                  [prev.markdownFiles[i] EXCEPT
                                      !.status = StatusOf(prev.markdownFiles[i])]]]

\* a consumer of the context calls updateJsonFile(jsonFile, content) on the
\* j-th item of the k-th container, passed as listed or, as the JsonFile type
\* declares it, with folderId naming its container
CallUpdateJsonFile(k, j, typed, content) ==
    /\ k \in 1..Len(fileState.jsonFolders)
    /\ j \in 1..Len(fileState.jsonFolders[k].files)
    /\ LET listed == fileState.jsonFolders[k].files[j]
           jsonFile == IF typed THEN [listed EXCEPT !.folderId = fileState.jsonFolders[k].id]
                       ELSE listed
       IN  fileState' = updateJsonFile(fileState, jsonFile, content)
    /\ ui' = UiCalls("updateJsonFile", fileState.jsonFolders[k].files[j].id, {"updateJsonFile"})
    /\ UNCHANGED <<load, editor, stp, ref, serverVars, driveVars, saveVars>>

\* ... and approveJsonFile(jsonFile)
CallApproveJsonFile(k, j, typed) ==
    /\ k \in 1..Len(fileState.jsonFolders)
    /\ j \in 1..Len(fileState.jsonFolders[k].files)
    /\ LET listed == fileState.jsonFolders[k].files[j]
           jsonFile == IF typed THEN [listed EXCEPT !.folderId = fileState.jsonFolders[k].id]
                       ELSE listed
       IN  fileState' = approveJsonFile(fileState, jsonFile)
    /\ ui' = UiCalls("approveJsonFile", fileState.jsonFolders[k].files[j].id, {"approveJsonFile"})
    /\ UNCHANGED <<load, editor, stp, ref, serverVars, driveVars, saveVars>>

(* ------------------------------ editor page --------------------------- *)
\* selectedJsonFile === null
NoFile == [id |-> Undefined, name |-> Undefined, content |-> NoContent,
           folderId |-> Undefined, edited |-> FALSE, approved |-> FALSE]

NoFolder == [id |-> Undefined, name |-> Undefined, files |-> <<>>,
             matchingMarkdownId |-> Undefined, progress |-> NoProgress]

IdleEditor == [markdownName |-> Undefined, selectedJsonFile |-> NoFile,
               jsonValue |-> NoContent, resultFiles |-> <<>>, asked |-> FALSE,
               loadingResults |-> FALSE, saveSuccess |-> FALSE,
               pc |-> "idle", file |-> NoFile, target |-> Undefined]

IdleStp == [pc |-> "idle", fileToSave |-> NoFile, updatedJsonFile |-> NoFile,
            closure |-> NoFile, folderName |-> Undefined, saved |-> FALSE]

\* JSON.parse of the text the store holds for an object
ContentOf(fileId) == [type |-> "object", v |-> "stored-" \o fileId]
\* what the user can turn the editor's value into
EditedContents == {[type |-> "object", v |-> "edited"]}

\* getMarkdownFile(markdownName), then getJsonFolder(markdownFile.matchingFolderId)
jsonFolder ==
    LET HasName(md) == md.name = editor.markdownName
        i == FirstIndex(fileState.markdownFiles, HasName)
    IN  IF i = 0 THEN NoFolder
        ELSE LET IsMatch(f) == f.id = fileState.markdownFiles[i].matchingFolderId
                 k == FirstIndex(fileState.jsonFolders, IsMatch)
             IN  IF k = 0 THEN NoFolder ELSE fileState.jsonFolders[k]

\* allResultFolders.flatMap(folder => folder.files.map(file => ({...file, folderName})))
RECURSIVE FlatResults(_)
FlatResults(folders) ==
    IF folders = <<>> THEN <<>>
    ELSE [j \in 1..Len(Head(folders).files) |->
             [id |-> Head(folders).files[j].id, name |-> Head(folders).files[j].name,
              folderName |-> Head(folders).folderName]]
         \o FlatResults(Tail(folders))

\* JsonEditor: the editor takes the item's content when the item or its
\* content changes
ValueAfter(selected) ==
    IF selected.id # editor.selectedJsonFile.id
       \/ selected.content # editor.selectedJsonFile.content
    THEN selected.content
    ELSE editor.jsonValue

\* the JSON editor is on screen
EditorShown ==
    /\ editor.selectedJsonFile # NoFile
    /\ ~(editor.pc = "content" /\ editor.selectedJsonFile.content = NoContent)

\* a click on a document of the dashboard, which lists them when it is
\* neither loading nor in error: navigate(`/editor/${markdownName}`), the
\* page opens with nothing selected
OpenEditor(i) ==
    /\ editor.markdownName = Undefined
    /\ ~fileState.isLoading
    /\ fileState.error = NoError
    /\ i \in 1..Len(fileState.markdownFiles)
    /\ editor' = [IdleEditor EXCEPT !.markdownName = fileState.markdownFiles[i].name]
    /\ UNCHANGED <<fileState, load, stp, ui, ref, serverVars, driveVars, saveVars>>

\* the effect on jsonFolder, run once for the folder object on screen:
\* fetchResultFiles() goes out
EditorFetchResults ==
    /\ editor.markdownName # Undefined
    /\ jsonFolder # NoFolder
    /\ ~editor.asked
    /\ ~editor.loadingResults
    /\ editor' = [editor EXCEPT !.asked = TRUE, !.loadingResults = TRUE]
    /\ UNCHANGED <<fileState, load, stp, ui, ref, serverVars, driveVars, saveVars>>

\* ... and comes back: setResultFiles(allFiles); a failure leaves them as they are
EditorResultsGot ==
    /\ editor.loadingResults
    /\ editor' = [editor EXCEPT !.loadingResults = FALSE,
                                !.resultFiles = FlatResults(RouteBody(objects, "result-files"))]
    /\ UNCHANGED <<fileState, load, stp, ui, ref, serverVars, driveVars, saveVars>>

EditorResultsFail ==
    /\ editor.loadingResults
    /\ editor' = [editor EXCEPT !.loadingResults = FALSE]
    /\ UNCHANGED <<fileState, load, stp, ui, ref, serverVars, driveVars, saveVars>>

\* back to the dashboard, once nothing of the page is under way
CloseEditor ==
    /\ editor.markdownName # Undefined
    /\ editor.pc = "idle" /\ stp.pc = "idle" /\ ~editor.loadingResults
    /\ editor' = IdleEditor
    /\ UNCHANGED <<fileState, load, stp, ui, ref, serverVars, driveVars, saveVars>>

\* resultFiles.find(file => file.name === fileName && file.folderName === jsonFolder.name)
MatchingResultFile(fileName) ==
    LET Same(rf) == rf.name = fileName /\ rf.folderName = jsonFolder.name IN
    FirstIndex(editor.resultFiles, Same)

\* handleJsonFileSelect once findMatchingResultFile gave nothing
SelectOriginal(e, file) ==
    IF file.content = NoContent
    THEN [e EXCEPT !.pc = "content", !.file = file, !.target = file.id]
    ELSE [e EXCEPT !.pc = "idle", !.file = NoFile, !.target = Undefined]

\* handleJsonFileSelect(file): the item shows at once; the content of its
\* result file, if it has one, or else its own content is fetched
HandleJsonFileSelect(j) ==
    /\ editor.markdownName # Undefined
    /\ editor.pc = "idle"
    /\ j \in 1..Len(jsonFolder.files)
    /\ LET file == jsonFolder.files[j]
           r == MatchingResultFile(file.name)
           \* <JsonEditor key={selectedJsonFile.id}>: another item mounts a new editor
           e == [editor EXCEPT !.selectedJsonFile = file, !.jsonValue = ValueAfter(file),
                               !.saveSuccess = IF file.id = editor.selectedJsonFile.id
                                               THEN @ ELSE FALSE]
       IN  editor' = IF r # 0
                     THEN [e EXCEPT !.pc = "resultContent", !.file = file,
                                    !.target = editor.resultFiles[r].id]
                     ELSE SelectOriginal(e, file)
    /\ ui' = Ui("handleJsonFileSelect", jsonFolder.files[j].id)
    /\ UNCHANGED <<fileState, load, stp, ref, serverVars, driveVars, saveVars>>

\* the result file's content arrives and parses: it is shown, not edited
SelectResultContentOk ==
    /\ editor.pc = "resultContent"
    /\ LET selected == [editor.file EXCEPT !.content = ContentOf(editor.target),
                                            !.approved = FALSE, !.edited = FALSE]
       IN  editor' = [editor EXCEPT !.selectedJsonFile = selected,
                                    !.jsonValue = ValueAfter(selected),
                                    !.pc = "idle", !.file = NoFile, !.target = Undefined]
    /\ ui' = Ui("handleJsonFileSelect:resultContent", editor.file.id)
    /\ UNCHANGED <<fileState, load, stp, ref, serverVars, driveVars, saveVars>>

\* the result file's content fails to arrive or to parse: on with the item itself
SelectResultContentFail ==
    /\ editor.pc = "resultContent"
    /\ editor' = SelectOriginal(editor, editor.file)
    /\ ui' = Ui("handleJsonFileSelect:noResult", editor.file.id)
    /\ UNCHANGED <<fileState, load, stp, ref, serverVars, driveVars, saveVars>>

\* the item's content arrives and parses: updateJsonFile(file, parsed), and
\* the selection takes the content
SelectContentOk ==
    /\ editor.pc = "content"
    /\ LET parsed == ContentOf(editor.target)
           selected == [editor.file EXCEPT !.content = parsed]
       IN  /\ fileState' = updateJsonFile(fileState, editor.file, parsed)
           /\ editor' = [editor EXCEPT !.selectedJsonFile = selected,
                                       !.jsonValue = ValueAfter(selected),
                                       !.pc = "idle", !.file = NoFile, !.target = Undefined]
    /\ ui' = UiCalls("handleJsonFileSelect:content", editor.file.id, {"updateJsonFile"})
    /\ UNCHANGED <<load, stp, ref, serverVars, driveVars, saveVars>>

SelectContentFail ==
    /\ editor.pc = "content"
    /\ editor' = [editor EXCEPT !.pc = "idle", !.file = NoFile, !.target = Undefined]
    /\ ui' = Ui("handleJsonFileSelect:failed", editor.file.id)
    /\ UNCHANGED <<fileState, load, stp, ref, serverVars, driveVars, saveVars>>

\* the user changes the value in the JSON editor: setJsonValue
EditValue(content) ==
    /\ EditorShown
    /\ ~editor.selectedJsonFile.approved
    /\ editor.jsonValue # content
    /\ editor' = [editor EXCEPT !.jsonValue = content]
    /\ ui' = Ui("setJsonValue", editor.selectedJsonFile.id)
    /\ UNCHANGED <<fileState, load, stp, ref, serverVars, driveVars, saveVars>>

(* -------------------- the editor's Save: saveToResults ------------------ *)
\* what POST /api/save-json leaves in the store when it runs alone from
\* objs with n ids handed out: the destination folder found or made, the
\* first file of that name deleted, the file created
SavedStore(objs, n, folderName, name) ==
    LET dest == DestOf(objs, folderName)
        made == dest = <<>>
        destId == IF made THEN "n" \o ToString(n + 1) ELSE dest[1].id
        withDest == IF made
                    THEN Append(objs, Obj(destId, folderName, RESULT_FOLDER_ID, FolderMime))
                    ELSE objs
        n1 == IF made THEN n + 1 ELSE n
        existing == Named(withDest, destId, name)
        cleared == IF existing # <<>> THEN Without(withDest, existing[1].id) ELSE withDest
    IN  [objects |-> Append(cleared, Obj("n" \o ToString(n1 + 1), name, destId, JsonMime)),
         nextId |-> n1 + 1]

\* handleJsonUpdate(content) on the selection sel
HandleJsonUpdate(prev, sel, content) ==
    IF sel = NoFile THEN prev ELSE updateJsonFile(prev, sel, content)

\* the Save button: handleSave calls onUpdate(jsonValue), then onSave();
\* handleSaveToResults works on the selection it was rendered with, takes the
\* editor's value if there is one, and calls saveToResults
ClickSave ==
    /\ EditorShown
    /\ stp.pc = "idle"
    /\ ~editor.selectedJsonFile.approved
    /\ jsonFolder # NoFolder
    /\ LET closure == editor.selectedJsonFile
           currentContent == editor.jsonValue
           updatedJsonFile == IF currentContent # NoContent
                              THEN [closure EXCEPT !.content = currentContent]
                              ELSE closure
       IN  /\ fileState' = HandleJsonUpdate(fileState, closure, currentContent)
           /\ editor' = [editor EXCEPT
                            !.saveSuccess = FALSE,
                            !.selectedJsonFile = [@ EXCEPT !.content = currentContent,
                                                           !.edited = TRUE]]
           /\ stp' = [pc |-> IF updatedJsonFile.content = NoContent THEN "fetch" ELSE "saving",
                      fileToSave |-> updatedJsonFile, updatedJsonFile |-> updatedJsonFile,
                      closure |-> closure, folderName |-> jsonFolder.name,
                      saved |-> FALSE]
    /\ ui' = UiCalls("handleSave", editor.selectedJsonFile.id, {"updateJsonFile"})
    /\ UNCHANGED <<load, ref, serverVars, driveVars, saveVars>>

\* after saveToResults: setSelectedJsonFile({...updatedJsonFile, edited: false}),
\* updateJsonFile(selectedJsonFile, updatedJsonFile.content), fetchResultFiles()
AfterSaveToResults(prev, saved) ==
    /\ fileState' = updateJsonFile(prev, stp.closure, stp.updatedJsonFile.content)
    /\ editor' = LET selected == [stp.updatedJsonFile EXCEPT !.edited = FALSE] IN
                 [editor EXCEPT !.selectedJsonFile = selected,
                                !.jsonValue = ValueAfter(selected)]
    \* history: whether saveJsonFile answered with success
    /\ stp' = [stp EXCEPT !.pc = "refresh", !.saved = saved]

\* saveToResults, the catch: setFileState(prev => ({...prev, error}))
SaveFailedSilent(prev) == prev
SaveFailed(prev) == [prev EXCEPT !.error = SaveError]

\* saveToResults (1): the content was undefined, it arrives and parses
StpFetchOk ==
    /\ stp.pc = "fetch"
    /\ LET parsed == ContentOf(stp.fileToSave.id)
           fileToSave == [stp.fileToSave EXCEPT !.content = parsed]
       IN  /\ fileState' = updateJsonFile(fileState, fileToSave, parsed)
           /\ stp' = [stp EXCEPT !.pc = "saving", !.fileToSave = fileToSave]
    /\ ui' = UiCalls("saveToResults:content", stp.fileToSave.id, {"updateJsonFile"})
    /\ UNCHANGED <<load, editor, ref, serverVars, driveVars, saveVars>>

\* saveToResults: the catch sets the error; handleSaveToResults goes on
StpFetchFail ==
    /\ stp.pc = "fetch"
    /\ AfterSaveToResults(SaveFailed(fileState), FALSE)
    /\ ui' = UiCalls("saveToResults:failed", stp.fileToSave.id, {"updateJsonFile"})
    /\ UNCHANGED <<load, ref, serverVars, driveVars, saveVars>>

\* saveToResults (2), (3): saveJsonFile answers 200, clearCache(),
\* approveJsonFile(fileToSave); handleSaveToResults goes on
StpSaveOk ==
    /\ stp.pc = "saving"
    /\ LET saved == SavedStore(objects, nextId, stp.folderName, stp.fileToSave.name) IN
           /\ saved.nextId <= MaxObjects
           /\ objects' = saved.objects
           /\ nextId' = saved.nextId
    /\ AfterSaveToResults(approveJsonFile(fileState, stp.fileToSave), TRUE)
    /\ ui' = UiCalls("saveToResults:done", stp.fileToSave.id,
                     {"approveJsonFile", "updateJsonFile"})
    /\ UNCHANGED <<load, ref, serverVars, pageCap, saveVars>>

StpSaveFail ==
    /\ stp.pc = "saving"
    /\ AfterSaveToResults(SaveFailed(fileState), FALSE)
    /\ ui' = UiCalls("saveToResults:failed", stp.fileToSave.id, {"updateJsonFile"})
    /\ UNCHANGED <<load, ref, serverVars, driveVars, saveVars>>

\* handleSave after `await onSave()`: handleSaveToResults caught whatever
\* went wrong, so the await returns and setSaveSuccess(true) runs in the
\* editor the click came from, if it is still mounted
SaveReported(e) ==
    IF e.selectedJsonFile.id = stp.fileToSave.id THEN [e EXCEPT !.saveSuccess = TRUE] ELSE e

\* handleSaveToResults: the refreshed result files arrive, or do not
StpRefreshOk ==
    /\ stp.pc = "refresh"
    /\ editor' = SaveReported([editor EXCEPT
                     !.resultFiles = FlatResults(RouteBody(objects, "result-files"))])
    /\ stp' = IdleStp
    /\ ui' = Ui("handleSaveToResults:done", stp.fileToSave.id)
    /\ UNCHANGED <<fileState, load, ref, serverVars, driveVars, saveVars>>

StpRefreshFail ==
    /\ stp.pc = "refresh"
    /\ stp' = IdleStp
    /\ editor' = SaveReported(editor)
    /\ ui' = Ui("handleSaveToResults:failed", stp.fileToSave.id)
    /\ UNCHANGED <<fileState, load, ref, serverVars, driveVars, saveVars>>

\* setTimeout(() => setSaveSuccess(false), 2000)
SaveSuccessTimeout ==
    /\ editor.saveSuccess
    /\ editor' = [editor EXCEPT !.saveSuccess = FALSE]
    /\ UNCHANGED <<fileState, load, stp, ui, ref, serverVars, driveVars, saveVars>>

(* ---------------------------- initial states --------------------------- *)
InitStore ==
    /\ cache = EmptyCache
    /\ now = 0
    /\ ret = NoCall
    /\ lastSet = [k \in CacheKeySet |-> NoSet]

InitGate ==
    /\ queue = <<>>
    /\ activeCount = 0
    /\ fetching = [f \in FileIds |-> 0]
    /\ dlMeta = [f \in FileIds |-> 0]
    /\ dlStream = [f \in FileIds |-> 0]

InitDriveEmpty ==
    /\ objects = <<>>
    /\ nextId = 0
    /\ pageCap = 1

InitListIdle ==
    /\ lreq = [s \in ListSlots |-> IdleList]
    /\ lres = IdleList

InitSaveIdle ==
    /\ sreq = [s \in SaveSlots |-> IdleSave]
    /\ sres = IdleSave
    /\ promoted = {}

InitClientIdle ==
    /\ fileState = initialState
    /\ load = [s \in LoadSlots |-> IdleLoad]
    /\ editor = IdleEditor
    /\ stp = IdleStp
    /\ ui = NoUi
    /\ ref = NoRef

\* stores the listing routes are run against
Catalogue ==
    <<Obj("m1", "RPT_2024_01_summary.md", MARKDOWN_FOLDER_ID, TextMime),
      Obj("m2", "RPT_2024_02_summary.md", MARKDOWN_FOLDER_ID, TextMime),
      Obj("j1", "rpt_2024_01_data", JSON_FOLDER_ID, FolderMime),
      Obj("j2", "rpt_2024_02_data", JSON_FOLDER_ID, FolderMime),
      Obj("j1a", "a.json", "j1", JsonMime),
      Obj("j1b", "b.json", "j1", JsonMime),
      Obj("j2a", "a.json", "j2", JsonMime),
      Obj("r1", "rpt_2024_01_data", RESULT_FOLDER_ID, FolderMime),
      Obj("r1a", "a.json", "r1", JsonMime),
      Obj("r1n", "notes.txt", "r1", TextMime)>>

InitStores == {SubSeq(Catalogue, 1, n) : n \in {0, 3, Len(Catalogue)}}

InitList ==
    /\ InitStore /\ InitGate /\ InitListIdle /\ InitSaveIdle /\ InitClientIdle
    /\ objects \in InitStores
    /\ nextId = 0
    /\ pageCap \in 1..MaxPages

NextList ==
    \/ \E s \in ListSlots, route \in Routes : ListStart(s, route)
    \/ \E s \in ListSlots : ListTopPage(s)
    \/ \E s \in ListSlots : ListTopFail(s)
    \/ \E s \in ListSlots : \E i \in 1..Len(lreq[s].subs) : ListSubPage(s, i)
    \/ \E s \in ListSlots : \E i \in 1..Len(lreq[s].subs) : ListSubFail(s, i)
    \/ PostCacheClear(NoBody)

SpecList == InitList /\ [][NextList]_vars

(* ------------------------- the byte-fetch routes ----------------------- *)
NextFetch ==
    \/ \E f \in FileIds : GetContent(f)
    \/ \E f \in FileIds : FetchDone(f)
    \/ \E f \in FileIds : FetchFail(f)
    \/ \E f \in FileIds : GetDownload(f)
    \/ \E f \in FileIds : DownloadNamed(f)
    \/ \E f \in FileIds : DownloadNameFail(f)
    \/ \E f \in FileIds : DownloadEnd(f)
    \/ \E f \in FileIds : DownloadFail(f)
    \/ \E d \in TickSteps : Tick(d)
    \/ Sweep

InitFetch == InitStore /\ InitGate /\ InitDriveEmpty /\ InitListIdle /\ InitSaveIdle /\ InitClientIdle

SpecFetch == InitFetch /\ [][NextFetch]_vars

(* ------------------ the content route and its gate -------------------- *)
NextGate ==
    \/ \E f \in FileIds : GetContent(f)
    \/ \E f \in FileIds : FetchDone(f)
    \/ \E f \in FileIds : FetchFail(f)
    \/ \E d \in TickSteps : Tick(d)

\* every request made to the store is answered in the end, with the bytes
\* or with a failure
StoreAnswers == WF_vars(\E f \in FileIds : FetchDone(f) \/ FetchFail(f))

SpecGate == InitFetch /\ [][NextGate]_vars /\ StoreAnswers

(* --------------------- the cache helpers on their own ------------------ *)
InitCache == InitStore /\ InitGate /\ InitDriveEmpty /\ InitListIdle /\ InitSaveIdle /\ InitClientIdle

NextCache ==
    \/ \E k \in CacheKeySet, v \in CacheValues : CallCacheSet(k, v)
    \/ \E k \in CacheKeySet : CallCacheGet(k)
    \/ \E p \in Prefixes : CallCacheDel(p)
    \/ \E b \in ClearBodies : PostCacheClear(b)
    \/ \E d \in TickSteps : Tick(d)
    \/ Sweep

SpecCache == InitCache /\ [][NextCache]_vars



(* ------------------ promotes and the result listing -------------------- *)
\* the results root as a promote may find it: without the destination
\* folder, with it, and with the file in it; another folder is always there
OtherFolder == Obj("r0", "rpt_2024_00_data", RESULT_FOLDER_ID, FolderMime)
SaveStores ==
    {<<OtherFolder>>,
     <<OtherFolder, Obj("r1", "rpt_2024_01_data", RESULT_FOLDER_ID, FolderMime)>>,
     <<OtherFolder, Obj("r1", "rpt_2024_01_data", RESULT_FOLDER_ID, FolderMime),
       Obj("r1a", "a.json", "r1", JsonMime)>>}

InitSave ==
    /\ InitStore /\ InitGate /\ InitListIdle /\ InitSaveIdle /\ InitClientIdle
    /\ objects \in SaveStores
    /\ nextId = 0
    /\ pageCap = 1

\* promotes running side by side
NextSave ==
    \/ \E s \in SaveSlots, body \in Bodies : SaveStart(s, body)
    \/ \E s \in SaveSlots : SaveMatchesPage(s)
    \/ \E s \in SaveSlots : SaveFolderCreated(s)
    \/ \E s \in SaveSlots : SaveExistingPage(s)
    \/ \E s \in SaveSlots : SaveDeleted(s)
    \/ \E s \in SaveSlots : SaveCreated(s)
    \/ \E s \in SaveSlots : SaveCallFail(s)

SpecSave == InitSave /\ [][NextSave]_vars

\* a promote and the listing of the results root side by side
NextResults ==
    \/ \E body \in Bodies : SaveStart(1, body)
    \/ SaveMatchesPage(1)
    \/ SaveFolderCreated(1)
    \/ SaveExistingPage(1)
    \/ SaveDeleted(1)
    \/ SaveCreated(1)
    \/ SaveCallFail(1)
    \/ \E s \in ListSlots : ListStart(s, "result-files")
    \/ \E s \in ListSlots : ListTopPage(s)
    \/ \E s \in ListSlots : ListTopFail(s)
    \/ \E s \in ListSlots : \E i \in 1..Len(lreq[s].subs) : ListSubPage(s, i)
    \/ \E s \in ListSlots : \E i \in 1..Len(lreq[s].subs) : ListSubFail(s, i)

SpecResults == InitSave /\ [][NextResults]_vars

(* -------------- listings side by side with a promote ------------------- *)
\* two listing requests may be in progress at once
IndexSlots == {1, 2}

\* the results root without and with the destination folder and its file
IndexStores ==
    {<<Obj("m1", "RPT_2024_01_summary.md", MARKDOWN_FOLDER_ID, TextMime)>>,
     <<Obj("m1", "RPT_2024_01_summary.md", MARKDOWN_FOLDER_ID, TextMime),
       Obj("r1", "rpt_2024_01_data", RESULT_FOLDER_ID, FolderMime),
       Obj("r1a", "a.json", "r1", JsonMime)>>}

InitIndex ==
    /\ InitStore /\ InitGate /\ InitSaveIdle /\ InitClientIdle
    /\ lreq = [s \in IndexSlots |-> IdleList]
    /\ lres = IdleList
    /\ objects \in IndexStores
    /\ nextId = 0
    /\ pageCap = 1

NextIndex ==
    \/ \E s \in IndexSlots, route \in Routes : ListStart(s, route)
    \/ \E s \in IndexSlots : ListTopPage(s)
    \/ \E s \in IndexSlots : ListTopFail(s)
    \/ \E s \in IndexSlots : \E i \in 1..Len(lreq[s].subs) : ListSubPage(s, i)
    \/ \E s \in IndexSlots : \E i \in 1..Len(lreq[s].subs) : ListSubFail(s, i)
    \/ SaveStart(1, Body("rpt_2024_01_data", JsonFile("a.json", ObjectContent)))
    \/ SaveMatchesPage(1)
    \/ SaveFolderCreated(1)
    \/ SaveExistingPage(1)
    \/ SaveDeleted(1)
    \/ SaveCreated(1)
    \/ Tick(CACHE_TTL_SEC + 1)

SpecIndex == InitIndex /\ [][NextIndex]_vars

(* ------------- promotes over a cache holding other entries ------------- *)
\* a promote, well-formed or not, next to the requests that fill the cache:
\* the three listings and the content of a file, each asked for until its
\* entry is there (the results listing at any time)
NextFrame ==
    \/ \E route \in Routes :
          /\ route = "result-files" \/ IndexKey(route) \notin DOMAIN cache
          /\ ListStart(1, route)
    \/ ListTopPage(1)
    \/ \E i \in 1..Len(lreq[1].subs) : ListSubPage(1, i)
    \/ FileKey("a") \notin DOMAIN cache /\ fetching["a"] = 0 /\ GetContent("a")
    \/ FetchDone("a")
    \/ \E body \in {Body("rpt_2024_01_data", JsonFile("a.json", ObjectContent)),
                     Body("rpt_2024_01_data", NoJsonFile)} : SaveStart(1, body)
    \/ SaveMatchesPage(1)
    \/ SaveFolderCreated(1)
    \/ SaveExistingPage(1)
    \/ SaveDeleted(1)
    \/ SaveCreated(1)
    \/ SaveCallFail(1)

InitFrame ==
    /\ InitStore /\ InitGate /\ InitListIdle /\ InitSaveIdle /\ InitClientIdle
    /\ objects \in IndexStores
    /\ nextId = 0
    /\ pageCap = 1

SpecFrame == InitFrame /\ [][NextFrame]_vars

(* ------------------------ reconciliation passes ------------------------ *)
\* stores the client is run against: documents, data folders with their
\* items, result folders with theirs
DocSets ==
    {<<>>,
     <<Obj("d1", "RPT_2024_01_summary.md", MARKDOWN_FOLDER_ID, TextMime)>>,
     <<Obj("d1", "RPT_2024_01_summary.md", MARKDOWN_FOLDER_ID, TextMime),
       Obj("d2", "RPT_2024_01_notes.md", MARKDOWN_FOLDER_ID, TextMime)>>,
     <<Obj("d3", "rpt_2024_01.txt", MARKDOWN_FOLDER_ID, TextMime)>>,
     <<Obj("d4", "rpt_2024_02_data.md", MARKDOWN_FOLDER_ID, TextMime),
       Obj("d5", "v1.md_2024_01_x.md", MARKDOWN_FOLDER_ID, TextMime)>>}

DataFolder1 ==
    <<Obj("f1", "rpt_2024_01_data", JSON_FOLDER_ID, FolderMime),
      Obj("f1a", "a.json", "f1", JsonMime),
      Obj("f1b", "b.json", "f1", JsonMime)>>
DataFolder2 ==
    <<Obj("f2", "RPT_2024_01_old", JSON_FOLDER_ID, FolderMime),
      Obj("f2a", "a.json", "f2", JsonMime)>>
DataFolder3 ==
    <<Obj("f3", "rpt_2024_02_data", JSON_FOLDER_ID, FolderMime),
      Obj("f3a", "a.json", "f3", JsonMime)>>
DataFolder4 ==
    <<Obj("f4", "v1_2024_01_data", JSON_FOLDER_ID, FolderMime)>>
FolderSets ==
    {<<>>, DataFolder1, DataFolder2 \o DataFolder1, DataFolder1 \o DataFolder3 \o DataFolder4}

ResultFolder1(files) ==
    <<Obj("r1", "rpt_2024_01_data", RESULT_FOLDER_ID, FolderMime)>>
    \o [i \in 1..Len(files) |-> Obj("r1" \o files[i], files[i] \o ".json", "r1", JsonMime)]
ResultFolder2 ==
    <<Obj("r2", "RPT_2024_01", RESULT_FOLDER_ID, FolderMime),
      Obj("r2a", "a.json", "r2", JsonMime),
      Obj("r2b", "b.json", "r2", JsonMime)>>
ResultFolder3 ==
    <<Obj("r3", "rpt_2024_02_data", RESULT_FOLDER_ID, FolderMime),
      Obj("r3a", "a.json", "r3", JsonMime)>>
ResultSets ==
    {<<>>, ResultFolder1(<<"a">>), ResultFolder1(<<"a", "b">>), ResultFolder2,
     ResultFolder3 \o ResultFolder1(<<"b">>)}

ClientStores == {d \o f \o r : d \in DocSets, f \in FolderSets, r \in ResultSets}

InitReconcile ==
    /\ InitStore /\ InitGate /\ InitListIdle /\ InitSaveIdle /\ InitClientIdle
    /\ objects \in ClientStores
    /\ nextId = 0
    /\ pageCap = 1

NextReconcile ==
    \/ \E s \in LoadSlots, forceRefresh \in BOOLEAN : LoadStart(s, forceRefresh)
    \/ \E s \in LoadSlots, route \in Routes : LoadGot(s, route)
    \/ \E s \in LoadSlots : LoadFail(s)

SpecReconcile == InitReconcile /\ [][NextReconcile]_vars

(* ------------------------- the editor at work -------------------------- *)
\* stores the editor is run against: a document whose data folder has no
\* result folder, and a document whose data folder has a result folder of
\* its name next to a document with an empty data folder
EditorStores ==
    {<<Obj("d1", "RPT_2024_01_summary.md", MARKDOWN_FOLDER_ID, TextMime)>> \o DataFolder2,
     <<Obj("d4", "rpt_2024_02_data.md", MARKDOWN_FOLDER_ID, TextMime),
       Obj("d5", "v1.md_2024_01_x.md", MARKDOWN_FOLDER_ID, TextMime)>>
        \o DataFolder3 \o DataFolder4 \o ResultFolder3}

InitEditor ==
    /\ InitStore /\ InitGate /\ InitListIdle /\ InitSaveIdle /\ InitClientIdle
    /\ objects \in EditorStores
    /\ nextId = 0
    /\ pageCap = 1

\* the dashboard loads the lists (on mount, or Refresh) while it is on
\* screen; the editor page selects, edits and saves
NextEditor ==
    \/ \E forceRefresh \in BOOLEAN :
          /\ editor.markdownName = Undefined
          /\ ref.passes < MaxPasses
          /\ LoadStart(1, forceRefresh)
    \/ \E route \in Routes : LoadGot(1, route)
    \/ LoadFail(1)
    \/ \E i \in 1..Len(fileState.markdownFiles) : OpenEditor(i)
    \/ EditorFetchResults
    \/ EditorResultsGot
    \/ EditorResultsFail
    \/ CloseEditor
    \/ \E j \in 1..Len(jsonFolder.files) : HandleJsonFileSelect(j)
    \/ SelectResultContentOk
    \/ SelectResultContentFail
    \/ SelectContentOk
    \/ SelectContentFail
    \/ \E content \in EditedContents : EditValue(content)
    \/ ClickSave
    \/ StpFetchOk
    \/ StpFetchFail
    \/ StpSaveOk
    \/ StpSaveFail
    \/ StpRefreshOk
    \/ StpRefreshFail
    \/ SaveSuccessTimeout

SpecEditor == InitEditor /\ [][NextEditor]_vars

(* ------------------- passes served by the listing routes --------------- *)
InitRefresh ==
    /\ InitStore /\ InitGate /\ InitListIdle /\ InitSaveIdle /\ InitClientIdle
    /\ objects \in EditorStores
    /\ nextId = 0
    /\ pageCap = 1

\* the dashboard's passes, each listing request answered by its route
NextRefresh ==
    \/ \E forceRefresh \in BOOLEAN : ref.passes < MaxPasses /\ LoadStart(1, forceRefresh)
    \/ \E route \in Routes : LoadSend(1, route)
    \/ ListTopPage(1)
    \/ ListTopFail(1)
    \/ \E i \in 1..Len(lreq[1].subs) : ListSubPage(1, i)
    \/ \E i \in 1..Len(lreq[1].subs) : ListSubFail(1, i)
    \/ LoadDeliver(1)

SpecRefresh == InitRefresh /\ [][NextRefresh]_vars

(* ------------- overlapping passes over a store being written ---------- *)
\* a document and its data folder, nothing promoted yet
OverlapStore ==
    <<Obj("d4", "rpt_2024_02_data.md", MARKDOWN_FOLDER_ID, TextMime)>> \o DataFolder3

InitOverlap ==
    /\ InitStore /\ InitGate /\ InitListIdle /\ InitSaveIdle /\ InitClientIdle
    /\ objects = OverlapStore
    /\ nextId = 0
    /\ pageCap = 1

\* the provider's auto-load (slot 1) and, while it is under way, the
\* dashboard's load (slot 2), with a promote of a.json reaching the server
\* in between; the pass that completes first is the only one recorded in ref
NextOverlap ==
    \/ \E forceRefresh \in BOOLEAN :
          /\ ~ref.set /\ load[2].pc = "idle"
          /\ LoadStart(1, forceRefresh)
    \/ \E forceRefresh \in BOOLEAN :
          /\ ~ref.set /\ load[1].pc = "fetching"
          /\ LoadStart(2, forceRefresh)
    \/ \E s \in LoadSlots, route \in Routes : LoadGot(s, route)
    \/ \E s \in LoadSlots : LoadFail(s)
    \/ SaveStart(1, Body("rpt_2024_02_data", JsonFile("a.json", ObjectContent)))
    \/ SaveMatchesPage(1)
    \/ SaveFolderCreated(1)
    \/ SaveExistingPage(1)
    \/ SaveDeleted(1)
    \/ SaveCreated(1)

SpecOverlap == InitOverlap /\ [][NextOverlap]_vars

(* ---------------------- the context and its callers -------------------- *)
\* the FileProvider under calls of its consumers: passes, and updates and
\* approvals of listed items
NextProvider ==
    \/ \E forceRefresh \in BOOLEAN : ref.passes < MaxPasses /\ LoadStart(1, forceRefresh)
    \/ \E route \in Routes : LoadGot(1, route)
    \/ LoadFail(1)
    \/ \E k \in 1..Len(fileState.jsonFolders), typed \in BOOLEAN :
          \E j \in 1..Len(fileState.jsonFolders[k].files) :
             CallUpdateJsonFile(k, j, typed, ObjectContent)
    \/ \E k \in 1..Len(fileState.jsonFolders), typed \in BOOLEAN :
          \E j \in 1..Len(fileState.jsonFolders[k].files) :
             CallApproveJsonFile(k, j, typed)

SpecProvider == InitEditor /\ [][NextProvider]_vars

(* ------------------------------- C1 ------------------------------------ *)
\* C1: concurrent GET /files/:id/content requests for one uncached object
\* share a single byte fetch: at most one fetch of fetchFileBytes per object
\* id is in flight at any time.
C1_SingleFlight == \A f \in FileIds : fetching[f] <= 1

(* ------------------------------- C2 ------------------------------------ *)
\* C2: the byte fetches in flight, over the content and the download route
\* together, never exceed MAX_PARALLEL_DOWNLOADS.
C2_InFlightCap == InFlightByteFetches <= MAX_PARALLEL_DOWNLOADS

(* ------------------------------- C3 ------------------------------------ *)
\* C3: a promote that ran with no other promote under way, found a file of
\* its name in the destination folder when it arrived and answers with
\* success leaves exactly one object of that name in the destination folder.
C3_UpsertExactlyOne ==
    [][\A s \in SaveSlots :
         (Active(sreq[s]) /\ ~Active(sreq'[s]) /\ sres'.seq # sres.seq
            /\ sres'.status = 200 /\ sres'.hadFile /\ sres'.solo) =>
               Len(Named(objects', sres'.destFolderId, sres'.input.jsonFile.name)) = 1]_vars

(* ------------------------------- C4 ------------------------------------ *)
\* the bodies the claim calls invalid
C4_Invalid(body) ==
    \/ body.folderName \in {Undefined, ""}
    \/ ~body.jsonFile.present
    \/ body.jsonFile.name \in {Undefined, ""}
    \/ body.jsonFile.content = NoContent

\* C4: a save-json request whose folderName or jsonFile.name is missing or
\* empty, or whose jsonFile.content is undefined, is answered 400 without a
\* single store call, in a step that leaves the cache, the store and the
\* other requests as they were.
C4_BadRequest ==
    [][(sres'.seq # sres.seq /\ C4_Invalid(sres'.input)) =>
          /\ sres'.status = 400
          /\ sres'.calls = 0
          /\ cache' = cache
          /\ objects' = objects
          /\ sreq' = sreq]_vars

\* a body without content was turned down while the cache held the index
C4_Witness ==
    /\ sres.status = 400
    /\ sres.input.jsonFile.content = NoContent
    /\ sres.input.folderName \in FolderNames
    /\ "result-index" \in DOMAIN cache

(* ------------------------------- C5 ------------------------------------ *)
\* C5: a GET /result-files answered with success lists, for every promote
\* that had been answered with success before the GET arrived (and whose
\* file no later promote has touched), the promoted name in a folder of the
\* promote's folderName.
C5_ListingShowsPromoted ==
    (lres.route = "result-files" /\ lres.status = 200) =>
        \A p \in lres.seen :
            \E i \in 1..Len(lres.body) :
                /\ lres.body[i].folderName = p[1]
                /\ \E j \in 1..Len(lres.body[i].files) : lres.body[i].files[j].name = p[2]

(* ------------------------------- C6 ------------------------------------ *)
\* C6: in the step in which a save-json request answers with success, the
\* cache is left without any key that starts with 'result-index'.
C6_NoResultIndexAtSuccess ==
    [][\A s \in SaveSlots :
         (Active(sreq[s]) /\ ~Active(sreq'[s]) /\ sres'.seq # sres.seq
            /\ sres'.status = 200) =>
               \A k \in DOMAIN cache' : ~StartsWith(k, "result-index")]_vars

\* a promote has answered with success and taken the cached index away
C6_Witness ==
    /\ sres.status = 200
    /\ sres.dropped = {"result-index"}
    /\ "result-index" \notin DOMAIN cache

(* ------------------------------- C7 ------------------------------------ *)
\* C7: a listAll call that has returned holds the concatenation of the files
\* of all the pages it was given, in page order; it made one request per
\* page, the first without a token and each later one with the token of the
\* page before, and the only page without a token is the last; the result
\* is the whole listing of the store for its query.
C7_ListAllPages ==
    \A c \in AllCalls :
        c.st = "returned" =>
            /\ Len(c.log) >= 1
            /\ c.out = Flatten(c.log)
            /\ c.log[1].pageToken = NoToken
            /\ \A i \in 2..Len(c.log) : c.log[i].pageToken = c.log[i - 1].nextPageToken
            /\ \A i \in 1..Len(c.log) : (c.log[i].nextPageToken = NoToken) <=> (i = Len(c.log))
            /\ c.out = Listing(objects, c.q)

\* a listing of two entries has come back in three pages, one of them empty
C7_Witness ==
    \E c \in AllCalls :
        /\ c.st = "returned"
        /\ Len(c.log) = 3
        /\ Len(c.out) = 2
        /\ \E i \in 1..3 : c.log[i].files = <<>>

(* ------------------------------- C8 ------------------------------------ *)
\* C8: a listing request of which a page request has failed ends with
\* status 500 and the error body, none of the entries it had accumulated,
\* in the step of the failure, and that step writes nothing to the cache.
C8_ListFailure ==
    [][\A s \in ListSlots :
         /\ ~lreq'[s].pageFailed
         /\ (Active(lreq[s]) /\ ~Active(lreq'[s]) /\ lres'.pageFailed) =>
               /\ lres'.status = 500
               /\ lres'.body = ErrorBody(lres'.route)
               /\ \A c \in CallsOf(lres') : c.st = "thrown" => c.out = <<>>
               /\ cache' = cache]_vars

\* the listing of the second folder failed on its second page, after the
\* listing of the first folder had returned
C8_Witness ==
    /\ lres.pageFailed
    /\ lres.route = "json-folders"
    /\ lres.status = 500
    /\ Len(lres.subs) = 2
    /\ lres.subs[1].st = "returned"
    /\ lres.subs[2].st = "thrown"
    /\ Len(lres.subs[2].log) = 1

(* ------------------------------- C9 ------------------------------------ *)
\* C9: a cacheGet(k) that follows a cacheSet(k, v) with no invalidation in
\* between returns v while less than CACHE_TTL_SEC has passed since the set,
\* and returns a miss once more than CACHE_TTL_SEC has passed.
C9_SetGetTtl ==
    [][(ret'.seq # ret.seq /\ ret'.op = "cacheGet" /\ lastSet[ret'.k].set) =>
          LET h == lastSet[ret'.k] IN
          /\ (now - h.at < CACHE_TTL_SEC => ret'.v = h.v)
          /\ (now - h.at > CACHE_TTL_SEC => ret'.v = Undefined)]_vars

\* a get 299 s after the set has returned the set value
C9_WitnessHit ==
    /\ ret.op = "cacheGet"
    /\ lastSet[ret.k].set
    /\ now - lastSet[ret.k].at = CACHE_TTL_SEC - 1
    /\ ret.v = lastSet[ret.k].v

(* ------------------------------- C10 ----------------------------------- *)
\* C10: cacheDel(prefix), called directly or by POST /cache/clear, removes
\* exactly the keys that start with a non-empty prefix and leaves every
\* other key with its entry; with an empty or absent prefix it removes all.
C10_PrefixDelete ==
    [][(ret'.seq # ret.seq /\ ret'.op \in {"cacheDel", "cache/clear"}) =>
          IF ret'.k = Undefined \/ ret'.k = ""
          THEN DOMAIN cache' = {}
          ELSE /\ DOMAIN cache' = {k \in DOMAIN cache : ~StartsWith(k, ret'.k)}
               /\ \A k \in DOMAIN cache' : cache'[k] = cache[k]]_vars

\* a clear with prefix "file-" has left result-index alone
C10_Witness ==
    /\ ret.op = "cache/clear"
    /\ ret.k = "file-"
    /\ DOMAIN cache = {"result-index"}

(* ------------------------------- C11 ----------------------------------- *)
\* C11: a request for an object whose bytes are in the cache, unexpired, is
\* answered with no request to the store, on the content route and on the
\* download route: in a step taken while file-<id> is a cache hit, no store
\* request for that id is issued (name request, byte fetch or media stream).
C11_CachedNoStoreRequest ==
    [][\A f \in FileIds :
         CacheHit(cache, now, FileKey(f)) =>
            /\ fetching'[f] <= fetching[f]
            /\ dlMeta'[f] <= dlMeta[f]
            /\ dlStream'[f] <= dlStream[f]]_vars

(* ------------------------------- C12 ----------------------------------- *)
\* C12: a GET /files/:id/content request for a cached object does not wait
\* at the admission gate: a request joins the queue of waiting calls only
\* when its object is not a cache hit at that moment.
C12_CachedSkipsGate ==
    [][Len(queue') > Len(queue) =>
          ~CacheHit(cache, now, FileKey(queue'[Len(queue')]))]_vars

(* ------------------------------- C13 ----------------------------------- *)
\* the name without its extension: what follows the last '.' goes with it
C13_StripExtension(name) ==
    LET dots == {i \in 1..Len(name) : SubSeq(name, i, i) = "."} IN
    IF dots = {} THEN name
    ELSE SubSeq(name, 1, (CHOOSE i \in dots : \A j \in dots : j <= i) - 1)

\* the match key: the first 3 '_'-separated segments
C13_Key(name) == Join(Slice(Split(name, "_"), 3), "_")

\* the first container, in listing order, whose key equals the document's
C13_Expected(md, folders) ==
    LET hits == {k \in 1..Len(folders) :
                    toLowerCase(C13_Key(folders[k].name))
                        = toLowerCase(C13_Key(C13_StripExtension(md.name)))}
    IN  IF hits = {} THEN Undefined
        ELSE folders[CHOOSE k \in hits : \A j \in hits : k <= j].id

\* C13: after a pass every document carries, as matchingFolderId, the id of
\* the first container in listing order whose match key equals its own,
\* ignoring case, and no matchingFolderId when no container has that key.
C13_FirstEqualKey ==
    \A i \in 1..Len(fileState.markdownFiles) :
        fileState.markdownFiles[i].matchingFolderId
            = C13_Expected(fileState.markdownFiles[i], fileState.jsonFolders)

(* ------------------------------- C14 ----------------------------------- *)
\* C14: the matching is one-to-one: no two documents carry the same
\* matchingFolderId and no two containers the same matchingMarkdownId.
C14_OneToOne ==
    /\ \A i, j \in 1..Len(fileState.markdownFiles) :
          (i # j /\ fileState.markdownFiles[i].matchingFolderId # Undefined) =>
              fileState.markdownFiles[i].matchingFolderId
                  # fileState.markdownFiles[j].matchingFolderId
    /\ \A i, j \in 1..Len(fileState.jsonFolders) :
          (i # j /\ fileState.jsonFolders[i].matchingMarkdownId # Undefined) =>
              fileState.jsonFolders[i].matchingMarkdownId
                  # fileState.jsonFolders[j].matchingMarkdownId

(* ------------------------------- C15 ----------------------------------- *)
\* the result listing a pass receives (the store stands still under
\* SpecReconcile)
C15_Results == RouteBody(objects, "result-files")

\* the container document md is matched to, as a set of at most one
C15_FolderOf(md) ==
    {k \in 1..Len(fileState.jsonFolders) :
        /\ fileState.jsonFolders[k].id = md.matchingFolderId
        /\ \A j \in 1..(k - 1) : fileState.jsonFolders[j].id # md.matchingFolderId}

\* C15: after a pass, a document matched to a container whose raw name no
\* result container bears is in-progress when an item of the container is
\* marked edited and pending otherwise, whatever result containers exist.
C15_NoResultStatus ==
    \A i \in 1..Len(fileState.markdownFiles) :
        \A k \in C15_FolderOf(fileState.markdownFiles[i]) :
            LET folder == fileState.jsonFolders[k] IN
            (\A r \in 1..Len(C15_Results) : C15_Results[r].folderName # folder.name) =>
                fileState.markdownFiles[i].status =
                    IF \E j \in 1..Len(folder.files) : folder.files[j].edited
                    THEN "in-progress" ELSE "pending"

(* ------------------------------- C16 ----------------------------------- *)
\* C16: after a pass, for a document matched to a container whose raw name a
\* result container bears exactly: with completedCount the number of the
\* container's item names found among that result container's item names,
\* the container's progress is 100*completedCount/totalItems (0 without
\* items) and the status is pending, in-progress or completed as
\* completedCount is 0, between 0 and totalItems, or totalItems.
C16_ResultStatus ==
    \A i \in 1..Len(fileState.markdownFiles) :
        \A k \in C15_FolderOf(fileState.markdownFiles[i]) :
            LET folder == fileState.jsonFolders[k]
                same == {r \in 1..Len(C15_Results) : C15_Results[r].folderName = folder.name}
            IN
            same # {} =>
                LET res == C15_Results[CHOOSE r \in same : \A q \in same : r <= q]
                    total == Len(folder.files)
                    completedCount ==
                        Cardinality({j \in 1..total :
                            \E x \in 1..Len(res.files) : res.files[x].name = folder.files[j].name})
                IN  /\ folder.progress.set
                    /\ folder.progress.pct =
                          IF total = 0 THEN 0 ELSE (100 * completedCount) \div total
                    /\ fileState.markdownFiles[i].status =
                          IF completedCount = 0 THEN "pending"
                          ELSE IF completedCount < total THEN "in-progress"
                          ELSE "completed"

(* ------------------------------- C17 ----------------------------------- *)
\* C17: after a pass that succeeded, every container whose name no result
\* container bears has as progress the number 100 * approved items / items,
\* between 0 and 100.
C17_ApprovedProgress ==
    ui.op = "loadFiles:done" =>
        \A k \in 1..Len(fileState.jsonFolders) :
            LET folder == fileState.jsonFolders[k]
                total == Len(folder.files)
                approvedCount == Cardinality({j \in 1..total : folder.files[j].approved})
            IN
            (\A r \in 1..Len(C15_Results) : C15_Results[r].folderName # folder.name) =>
                /\ folder.progress.set
                /\ folder.progress.pct \in 0..100
                /\ total > 0 => folder.progress.pct = (100 * approvedCount) \div total

(* ------------------------------- C18 ----------------------------------- *)
\* C18: once approveJsonFile or updateJsonFile has been called on an item,
\* the container holding the item has as progress the number
\* 100 * approved items / items, counted after the call, and 0 when it has
\* no items.
C18_ProgressAfterUpdate ==
    ui.calls # {} =>
        \A k \in 1..Len(fileState.jsonFolders) :
            LET folder == fileState.jsonFolders[k]
                total == Len(folder.files)
                approvedCount == Cardinality({j \in 1..total : folder.files[j].approved})
            IN
            (\E j \in 1..total : folder.files[j].id = ui.id) =>
                folder.progress = IF total > 0
                                  THEN Progress((100 * approvedCount) \div total)
                                  ELSE Progress(0)

(* ------------------------------- C19 ----------------------------------- *)
\* C19: what a pass that succeeded stores is a function of its three
\* listings: a pass that received the listings the first pass received has
\* stored the markdownFiles and jsonFolders the first pass stored, whatever
\* fileState was before it.
C19_FunctionOfListings ==
    (ui.op = "loadFiles:done" /\ ref.set /\ ref.last = ref.listings) =>
        /\ fileState.markdownFiles = ref.markdownFiles
        /\ fileState.jsonFolders = ref.jsonFolders

\* a second pass has stored matched documents over the outcome of the first
C19_Witness ==
    /\ ui.op = "loadFiles:done"
    /\ ref.passes = 2
    /\ ref.last = ref.listings
    /\ \E i \in 1..Len(fileState.markdownFiles) :
          /\ fileState.markdownFiles[i].matchingFolderId # Undefined
          /\ fileState.markdownFiles[i].status = "completed"

(* ------------------------------- C20 ----------------------------------- *)
\* the items of the lists whose edited flag is set
C20_EditedIds(fs) ==
    UNION {{fs.jsonFolders[k].files[j].id :
               j \in {x \in 1..Len(fs.jsonFolders[k].files) : fs.jsonFolders[k].files[x].edited}} :
           k \in 1..Len(fs.jsonFolders)}

\* the edited flag of an item turns true in this step, in the lists or on
\* the item selected in the editor
C20_EditedRises ==
    \/ C20_EditedIds(fileState') \ C20_EditedIds(fileState) # {}
    \/ /\ editor'.selectedJsonFile.id = editor.selectedJsonFile.id
       /\ editor'.selectedJsonFile.edited
       /\ ~editor.selectedJsonFile.edited

\* C20: the edited flag of an item turns true only when the user's Save
\* writes the editor's value into the item; the arrival of an item's
\* content from the store, on selecting it or inside saveToResults, does
\* not set it.
C20_EditedOnlyByUser == [][C20_EditedRises => ui'.op = "handleSave"]_vars

\* the content of the selected item has just arrived from the store and the
\* item is not edited, in the editor or in the lists
C20_Witness ==
    /\ ui.op = "handleJsonFileSelect:content"
    /\ editor.selectedJsonFile.id = ui.id
    /\ editor.selectedJsonFile.content = ContentOf(ui.id)
    /\ ~editor.selectedJsonFile.edited
    /\ C20_EditedIds(fileState) = {}

(* ------------------------------- C21 ----------------------------------- *)
\* the items of the lists whose approved flag is set
C21_ApprovedIds(fs) ==
    UNION {{fs.jsonFolders[k].files[j].id :
               j \in {x \in 1..Len(fs.jsonFolders[k].files) :
                         fs.jsonFolders[k].files[x].approved}} :
           k \in 1..Len(fs.jsonFolders)}

\* C21: the approved flag of an item turns true only in the step of
\* saveToResults in which the save of that item was answered with success;
\* when the content fetch or the save fails, the approved flags stay as they
\* were and fileState.error is set.
C21_ApprovedAfterSave ==
    [][/\ \A id \in C21_ApprovedIds(fileState') \ C21_ApprovedIds(fileState) :
             ui'.op = "saveToResults:done" /\ ui'.id = id
       /\ (ui'.seq # ui.seq /\ ui'.op = "saveToResults:failed") =>
             /\ C21_ApprovedIds(fileState') = C21_ApprovedIds(fileState)
             /\ fileState'.error # NoError]_vars

\* the save of an item has just failed: the error shows, nothing is approved
C21_Witness ==
    /\ ui.op = "saveToResults:failed"
    /\ stp.pc = "refresh"
    /\ stp.fileToSave.content # NoContent
    /\ fileState.error = SaveError
    /\ C21_ApprovedIds(fileState) = {}

(* ------------------------------- C22 ----------------------------------- *)
\* the items of the lists
C22_Ids(fs) ==
    UNION {{fs.jsonFolders[k].files[j].id : j \in 1..Len(fs.jsonFolders[k].files)} :
           k \in 1..Len(fs.jsonFolders)}

C23_Step ==
    /\ \A s \in LoadSlots :
          (load[s].pc = "idle" /\ load'[s].pc = "fetching") =>
              /\ load'[s].got = NoneGot
              /\ fileState'.markdownFiles = fileState.markdownFiles
    /\ (ui'.seq # ui.seq /\ ui'.op = "loadFiles:done") =>
          \E s \in LoadSlots, r \in Routes :
             /\ load[s].pc = "fetching" /\ load'[s].pc = "idle"
             /\ ~load[s].got[r]
             /\ \A q \in Routes \ {r} : load[s].got[q]
             /\ LET l == [load[s] EXCEPT
                             !.markdownFiles = IF r = "markdown-files"
                                               THEN RouteBody(objects, r) ELSE @,
                             !.jsonFolders = IF r = "json-folders"
                                             THEN RouteBody(objects, r) ELSE @,
                             !.resultFolders = IF r = "result-files"
                                               THEN RouteBody(objects, r) ELSE @]
                IN  /\ fileState'.markdownFiles = Reconcile(l).markdownFiles
                    /\ fileState'.jsonFolders = Reconcile(l).jsonFolders
    /\ (fileState'.markdownFiles # fileState.markdownFiles
           \/ fileState'.jsonFolders # fileState.jsonFolders) => ui'.op = "loadFiles:done"

\* C23: the three listing requests of loadFiles are issued without waiting
\* for one another, and matching and status computation run only once all
\* three have arrived, never on a subset of the listings.
C23_FullBarrier == [][C23_Step]_vars

\* the listing issued last has arrived first, the other two are still out,
\* and nothing has been matched or stored
C23_Witness ==
    \E s \in LoadSlots :
        /\ load[s].pc = "fetching"
        /\ load[s].got["result-files"]
        /\ load[s].resultFolders # <<>>
        /\ ~load[s].got["markdown-files"] /\ ~load[s].got["json-folders"]
        /\ fileState.markdownFiles = <<>> /\ fileState.jsonFolders = <<>>
        /\ ~ref.set

(* ------------------------------- C24 ----------------------------------- *)
\* C24: a pass one of whose listing requests fails leaves markdownFiles and
\* jsonFolders as they were, sets fileState.error to a message and isLoading
\* to false: neither its start nor its failure changes the lists.
C24_FailedPassKeepsLists ==
    [][/\ (ui'.seq # ui.seq /\ ui'.op \in {"loadFiles", "loadFiles:failed"}) =>
             /\ fileState'.markdownFiles = fileState.markdownFiles
             /\ fileState'.jsonFolders = fileState.jsonFolders
       /\ (ui'.seq # ui.seq /\ ui'.op = "loadFiles:failed") =>
             /\ fileState'.error # NoError
             /\ ~fileState'.isLoading]_vars

\* a pass has failed after an earlier one stored matched documents: they
\* are still listed, next to the error
C24_Witness ==
    /\ ui.op = "loadFiles:failed"
    /\ ref.set
    /\ fileState.markdownFiles = ref.markdownFiles
    /\ \E i \in 1..Len(fileState.markdownFiles) :
          fileState.markdownFiles[i].matchingFolderId # Undefined
    /\ fileState.error = LoadError
    /\ ~fileState.isLoading

(* ------------------------------- C25 ----------------------------------- *)
\* the containers of the store under the results root
C25_Containers(objs) ==
    {i \in 1..Len(objs) : objs[i].parent = RESULT_FOLDER_ID /\ objs[i].mime = FolderMime}

\* C25: POST /save-json creates a container under the results root only
\* when the listing of the containers called folderName is empty; when there
\* is one it creates none and takes the first listed as the destination, into
\* which the file is written.
C25_FindOrCreate ==
    [][/\ \A s \in SaveSlots :
             LET folderName == sreq[s].input.folderName IN
             /\ (sreq[s].pc = "matches" /\ sreq'[s].pc = "mkdir") =>
                    DestOf(objects, folderName) = <<>>
             /\ (sreq[s].pc = "matches" /\ sreq'[s].pc = "existing") =>
                    /\ DestOf(objects, folderName) # <<>>
                    /\ sreq'[s].destFolderId = DestOf(objects, folderName)[1].id
                    /\ objects' = objects
             /\ (sreq[s].pc = "create" /\ sres'.seq # sres.seq /\ sres'.status = 200
                   /\ sreq'[s].pc = "idle") =>
                    objects'[Len(objects')].parent = sreq[s].destFolderId
       /\ Cardinality(C25_Containers(objects')) > Cardinality(C25_Containers(objects)) =>
             \E s \in SaveSlots :
                /\ sreq[s].pc = "mkdir"
                /\ objects' = Append(objects, Obj(sreq'[s].destFolderId,
                                                  sreq[s].input.folderName,
                                                  RESULT_FOLDER_ID, FolderMime))]_vars

\* a request found the container of its folderName in the store and goes on
\* to the file with it as destination, having created nothing
C25_Witness ==
    \E s \in SaveSlots :
        /\ sreq[s].pc = "existing"
        /\ sreq[s].destFolderId = "r1"
        /\ sreq[s].input.folderName = "rpt_2024_01_data"
        /\ nextId = 0

(* ------------------------------- C26 ----------------------------------- *)
\* two containers under the results root bear the same name
C26_Duplicates(objs) ==
    \E i, j \in C25_Containers(objs) : i < j /\ objs[i].name = objs[j].name

\* C26: two POST /save-json requests with the same folderName under way
\* together, no container of that name existing, can both list none and both
\* create one; two containers of one name arise in this way and in no other:
\* the request whose create makes the second one did not run alone.
C26_DuplicateByRace ==
    [][(~C26_Duplicates(objects) /\ C26_Duplicates(objects')) =>
          \E s \in SaveSlots :
             /\ sreq[s].pc = "mkdir"
             /\ ~sreq[s].solo
             /\ DestOf(objects, sreq[s].input.folderName) # <<>>
             /\ Len(DestOf(objects', sreq[s].input.folderName)) = 2]_vars

\* both requests have created a container of the name they share
C26_Witness ==
    /\ C26_Duplicates(objects)
    /\ \E s, t \in SaveSlots :
          /\ s # t
          /\ sreq[s].input.folderName = sreq[t].input.folderName
          /\ sreq[s].pc = "existing" /\ sreq[t].pc = "existing"
          /\ sreq[s].destFolderId # sreq[t].destFolderId
          /\ Len(DestOf(objects, sreq[s].input.folderName)) = 2

C28_ForcedReadsStore ==
    [][\A route \in Routes :
          (/\ load[1].pc = "fetching" /\ load[1].forced
           /\ lreq[1].pc = "idle" /\ lres.pc # "done"
           /\ lres'.pc = "done" /\ lres'.route = route) =>
              ~CacheHit(cache, now, IndexKey(route))]_vars

(* ------------------------------- C29 ----------------------------------- *)
\* the ids the store hands to objects created by saves
C29_NewIds == {"n" \o ToString(k) : k \in 1..(MaxObjects + 1)}

\* a save has put an object called name into a result container called
\* folderName
C29_Saved(folderName, name) ==
    \E i, j \in 1..Len(objects) :
        /\ objects[i].parent = RESULT_FOLDER_ID /\ objects[i].name = folderName
        /\ objects[j].parent = objects[i].id /\ objects[j].name = name
        /\ objects[j].id \in C29_NewIds

\* C29: once every item of the container matched to a document has been
\* saved to the results under the container's name and a pass has then
\* completed, the document is completed and the container's progress is 100.
C29_CompletedAfterSaves ==
    (ui.op = "loadFiles:done") =>
        \A i \in 1..Len(fileState.markdownFiles) :
            \A k \in 1..Len(fileState.jsonFolders) :
                LET md == fileState.markdownFiles[i]
                    folder == fileState.jsonFolders[k]
                IN  (/\ md.matchingFolderId = folder.id
                     /\ Len(folder.files) >= 1
                     /\ \A j \in 1..Len(folder.files) :
                           C29_Saved(folder.name, folder.files[j].name)) =>
                        /\ md.status = "completed"
                        /\ folder.progress = Progress(100)

(* ------------------------------- C30 ----------------------------------- *)
\* a step in which a request for the route is answered at once or sent on
\* to the store, while the route's index is live
C30_HitServed(route) ==
    LET k == IndexKey(route) IN
    CacheHit(cache, now, k) =>
        \* no request for the route goes to the store
        /\ \A s \in DOMAIN lreq :
              (lreq[s].pc = "idle" /\ lreq'[s].pc # "idle") => lreq'[s].route # route
        \* the answer given at once is the cached value
        /\ (/\ UNCHANGED <<lreq, now, objects, sreq, sres>>
            /\ lres'.pc = "done" /\ lres'.route = route /\ lres'.call = NoCallYet) =>
              /\ lres'.status = 200
              /\ lres'.body = cache[k].v
              /\ lres'.call = NoCallYet /\ lres'.subs = <<>>

\* a live index entry is still there unchanged after the step, or is gone
C30_EntryKept(route) ==
    LET k == IndexKey(route) IN
    (CacheHit(cache, now, k) /\ k \in DOMAIN cache') => cache'[k] = cache[k]

\* the part of C30 about requests arriving while the index is live
C30_ServedFromCache == [][\A route \in Routes : C30_HitServed(route)]_vars

\* C30: while an index key is present and unexpired the listing route
\* returns exactly the cached value and asks the store nothing, whatever
\* the store holds by then, and the entry is replaced only after expiry or
\* invalidation.
C30_CachedIndexWins ==
    [][\A route \in Routes : C30_HitServed(route) /\ C30_EntryKept(route)]_vars

\* a cached index differs from what the store would now list
C30_Stale ==
    \E route \in Routes :
        /\ CacheHit(cache, now, IndexKey(route))
        /\ cache[IndexKey(route)].v # RouteBody(objects, route)
        /\ lres.pc = "done" /\ lres.route = route /\ lres.call = NoCallYet
        /\ lres.body = cache[IndexKey(route)].v

(* ------------------------------- C31 ----------------------------------- *)
\* C31: when promotes of the same file name into the same destination folder
\* overlapped and answered with success, the folder holds exactly one object
\* of that name once the last of them has answered.
C31_OneAfterOverlap ==
    [][\A s \in SaveSlots :
         (/\ Active(sreq[s]) /\ ~Active(sreq'[s]) /\ sres'.seq # sres.seq
          /\ \A x \in SaveSlots : ~Active(sreq'[x])
          /\ sres'.status = 200 /\ ~sres'.solo
          /\ sres.pc = "done" /\ sres.status = 200 /\ ~sres.solo
          /\ sres.input = sres'.input) =>
             Len(Named(objects', sres'.destFolderId, sres'.input.jsonFile.name)) = 1]_vars

(* ------------------------------- C32 ----------------------------------- *)
\* the store holds an object called name in a result container called
\* folderName
C32_InResults(folderName, name) ==
    \E i, j \in 1..Len(objects) :
        /\ objects[i].parent = RESULT_FOLDER_ID /\ objects[i].name = folderName
        /\ objects[j].parent = objects[i].id /\ objects[j].name = name

\* C32: a document is completed only if its matching container has at least
\* one item and every item name of the container is in the store's result
\* container named as the container.
C32_CompletedOnlyIfAllInResults ==
    \A i \in 1..Len(fileState.markdownFiles) :
        fileState.markdownFiles[i].status = "completed" =>
            \E k \in 1..Len(fileState.jsonFolders) :
                LET folder == fileState.jsonFolders[k] IN
                /\ folder.id = fileState.markdownFiles[i].matchingFolderId
                /\ Len(folder.files) >= 1
                /\ \A j \in 1..Len(folder.files) :
                      C32_InResults(folder.name, folder.files[j].name)

C34_LoadingWhileAnyPass ==
    (\E s \in LoadSlots : load[s].pc = "fetching") => fileState.isLoading

(* ------------------------------- C35 ----------------------------------- *)
\* C35: when loadFiles calls overlap and all succeed, the lists held once
\* all have finished are those of the call that started last: when the call
\* that started first completes after the one that started during it, the
\* lists stay what the later call computed.
C35_LastStartedWins ==
    [][(/\ load[1].pc = "fetching" /\ load[2].pc = "idle" /\ ref.set
        /\ ui'.seq # ui.seq /\ ui'.op = "loadFiles:done") =>
           /\ fileState'.markdownFiles = ref.markdownFiles
           /\ fileState'.jsonFolders = ref.jsonFolders]_vars

(* ------------------------------- C36 ----------------------------------- *)
\* C36: the editor reports success ('Saved') only if the promote of the
\* item succeeded: in a step that turns saveSuccess on, the save-json request
\* of that save had answered with success; and a failed promote leaves the
\* item's approved flag false.
C36_SavedOnlyAfterPromote ==
    [][/\ (~editor.saveSuccess /\ editor'.saveSuccess) => stp.saved
       /\ (ui'.seq # ui.seq /\ ui'.op = "saveToResults:failed") =>
             /\ ~editor'.selectedJsonFile.approved
             /\ C21_ApprovedIds(fileState') = C21_ApprovedIds(fileState)]_vars

(* ------------------------------- C37 ----------------------------------- *)
\* a step in which calls leave the gate's queue
C37_Dequeue == Len(queue') < Len(queue)

\* the slots are all free once no fetch is under way and nobody waits
C37_SlotsReturn == (Sum(fetching) = 0 /\ queue = <<>>) => activeCount = 0

\* C37: with a store that answers every request, by bytes or by failure, the
\* calls waiting at the gate get their slot: the queue is first in first
\* out, and it either empties again and again or hands a slot to its head
\* again and again; a failed fetch frees its slot as a successful one does,
\* so the occupied slots are back to 0 once every request has finished.
C37_WaitersAdmitted ==
    /\ []C37_SlotsReturn
    /\ []<>(queue = <<>>) \/ []<><<C37_Dequeue>>_vars

\* a call waits at the gate behind fetches of which one then fails
C37_Witness == queue # <<>> /\ activeCount = MAX_PARALLEL_DOWNLOADS

(* ------------------------------- C38 ----------------------------------- *)
\* a step of a save-json request
C38_SaveStep == sreq' # sreq \/ sres'.seq # sres.seq

\* C38: a save-json request never removes or changes a cache entry whose key
\* does not start with 'result-index', and a request answered 400 or 500
\* leaves the whole cache as it was, a result-index entry that lists a file
\* the request has deleted included.
C38_SaveTouchesResultIndexOnly ==
    [][C38_SaveStep =>
          /\ \A k \in DOMAIN cache :
                ~StartsWith(k, "result-index") =>
                    k \in DOMAIN cache' /\ cache'[k] = cache[k]
          /\ (sres'.seq # sres.seq /\ sres'.status \in {400, 500}) => cache' = cache]_vars

\* a promote has deleted the file and then failed, over a cache that holds
\* the other entries and still lists the file
C38_Witness ==
    /\ sres.pc = "done" /\ sres.status = 500 /\ sres.hadFile
    /\ {"result-index", "markdown-index", "json-index", FileKey("a")} \subseteq DOMAIN cache
    /\ cache["result-index"].v # RouteBody(objects, "result-files")

====
